---- MODULE Spec2Model ----
(***************************************************************************)
(* A model of the ni_string dynamic string buffer (ni_string.h /           *)
(* ni_string.c) on top of the ni_malloc allocator facade.                  *)
(*                                                                         *)
(* Memory is modelled byte for byte: the heap maps the start address of    *)
(* every live allocation to its bytes, and a string handle is the address  *)
(* of the first data byte, so that the header is really read and written   *)
(* at negative offsets from the handle.  The bytes of a block are kept     *)
(* run-length encoded (a sequence of runs [b |-> byte, n |-> count]) so    *)
(* that buffers of 64 KiB and 1 MiB, where the header variant and the      *)
(* growth policy change, stay cheap to explore.  A byte is 0..255, or      *)
(* Undef for memory that was allocated and never written.                  *)
(*                                                                         *)
(* Sizes stay below 2^31; the 32 and 64 bit header fields therefore never  *)
(* wrap in the model, and the 64 bit variant is not reached.               *)
(***************************************************************************)
EXTENDS Integers, Sequences, FiniteSets, TLC

\* ------------------------------------------------------------------ bounds
MaxOps == 3
NSlots == 7
OomCalls == 2

\* -------------------------------------------------------- program constants
NI_STRING_MAX_PREALLOC == 1048576
NI_STRING_TYPE_5 == 0
NI_STRING_TYPE_8 == 1
NI_STRING_TYPE_16 == 2
NI_STRING_TYPE_32 == 3
NI_STRING_TYPE_64 == 4
NI_STRING_TYPE_MASK == 7
NI_STRING_TYPE_BITS == 3

NULL == 0
\* sizeof(ni_string), the size of a pointer
PtrSize == 8
Undef == -1
\* Distance between the start addresses the allocator hands out; larger than
\* any block of the model, so blocks never overlap.
SlotStride == 16777216

\* ------------------------------------------------- run-length encoded bytes
RFill(b, n) == IF n <= 0 THEN <<>> ELSE <<[b |-> b, n |-> n]>>

\* Sequences of more than RunChunk runs (NormChunk, when normalising) are
\* handled half by half, shorter ones run by run.
RunChunk == 24
NormChunk == 8
FrontRuns(r) == SubSeq(r, 1, Len(r) \div 2)
BackRuns(r) == SubSeq(r, Len(r) \div 2 + 1, Len(r))

RECURSIVE RLen(_)
\* the number of bytes of r
RLen(r) ==
  IF r = <<>> THEN 0
  ELSE IF Len(r) <= RunChunk THEN r[1].n + RLen(Tail(r))
  ELSE RLen(FrontRuns(r)) + RLen(BackRuns(r))

RECURSIVE RNorm(_)
\* the canonical encoding: no empty run, no two adjacent runs of one byte
RNorm(r) ==
  IF r = <<>> THEN <<>>
  ELSE IF Len(r) <= NormChunk
  THEN IF r[1].n = 0 THEN RNorm(Tail(r))
       ELSE LET Join(t) ==
                  IF t # <<>> /\ t[1].b = r[1].b
                  THEN <<[b |-> r[1].b, n |-> r[1].n + t[1].n]>> \o Tail(t)
                  ELSE <<r[1]>> \o t
            IN Join(RNorm(Tail(r)))
  ELSE LET Meet(a, b) ==
             IF a = <<>> \/ b = <<>> THEN a \o b
             ELSE IF a[Len(a)].b # b[1].b THEN a \o b
             ELSE SubSeq(a, 1, Len(a) - 1)
                    \o <<[b |-> b[1].b, n |-> a[Len(a)].n + b[1].n]>>
                    \o Tail(b)
       IN Meet(RNorm(FrontRuns(r)), RNorm(BackRuns(r)))

RCat(a, b) == RNorm(a \o b)

RECURSIVE RTake(_, _)
\* the first k bytes of r
RTake(r, k) ==
  IF k <= 0 \/ r = <<>> THEN <<>>
  ELSE IF Len(r) <= RunChunk
  THEN IF r[1].n >= k THEN <<[b |-> r[1].b, n |-> k]>>
       ELSE <<r[1]>> \o RTake(Tail(r), k - r[1].n)
  ELSE LET Half(a, b, la) ==
             IF k <= la THEN RTake(a, k) ELSE a \o RTake(b, k - la)
           Cut(a, b) == Half(a, b, RLen(a))
       IN Cut(FrontRuns(r), BackRuns(r))

RECURSIVE RDrop(_, _)
\* r without its first k bytes
RDrop(r, k) ==
  IF k <= 0 \/ r = <<>> THEN r
  ELSE IF Len(r) <= RunChunk
  THEN IF r[1].n > k THEN <<[b |-> r[1].b, n |-> r[1].n - k]>> \o Tail(r)
       ELSE RDrop(Tail(r), k - r[1].n)
  ELSE LET Half(a, b, la) ==
             IF k < la THEN RDrop(a, k) \o b ELSE RDrop(b, k - la)
           Cut(a, b) == Half(a, b, RLen(a))
       IN Cut(FrontRuns(r), BackRuns(r))

\* bytes [off, off+k) of r
RSub(r, off, k) == RTake(RDrop(r, off), k)

RECURSIVE RGet(_, _)
\* byte i of r, counted from 0
RGet(r, i) ==
  IF r = <<>> THEN Undef
  ELSE IF Len(r) <= RunChunk
  THEN IF i < r[1].n THEN r[1].b ELSE RGet(Tail(r), i - r[1].n)
  ELSE LET Half(a, b, la) == IF i < la THEN RGet(a, i) ELSE RGet(b, i - la)
           Cut(a, b) == Half(a, b, RLen(a))
       IN Cut(FrontRuns(r), BackRuns(r))

\* r with the n bytes from offset off on overwritten by data (memcpy into r)
RSet(r, off, data, n) == RNorm(RTake(r, off) \o data \o RDrop(r, off + n))

\* the encoding of the byte sequence q
RFromSeq(q) == RNorm(<<>> \o [j \in 1..Len(q) |-> [b |-> q[j], n |-> 1]])

\* ------------------------------------------------------------------- memory
\* h is a heap: [start address of a live block -> its bytes]

\* Blocks start at multiples of SlotStride and are shorter than it, so the
\* block an address lies in, if any, starts at the multiple below it.
BlockOf(p) == SlotStride * (p \div SlotStride)

\* the n bytes at p lie inside the live block that starts at b
InBlock(h, b, p, n) ==
  IF b \in DOMAIN h THEN p + n <= b + RLen(h[b]) ELSE FALSE
\* the n bytes at p lie inside one live block
InHeap(h, p, n) == InBlock(h, BlockOf(p), p, n)

\* Reads and writes inside a live block.  An access outside every live block
\* is undefined behaviour: the operations that can reach one report it through
\* the machine's ub flag; here such a read yields Undef and such a write is
\* dropped.
RdIn(h, b, p) == IF b \in DOMAIN h THEN RGet(h[b], p - b) ELSE Undef
Rd(h, p) == RdIn(h, BlockOf(p), p)

RdBytesIn(h, b, p, n) ==
  IF n <= 0 THEN <<>>
  ELSE IF InBlock(h, b, p, n) THEN RSub(h[b], p - b, n)
  ELSE RFill(Undef, n)
RdBytes(h, p, n) == RdBytesIn(h, BlockOf(p), p, n)

WrIn(h, b, p, data, n) ==
  IF n = 0 THEN h
  ELSE IF InBlock(h, b, p, n) THEN [h EXCEPT ![b] = RSet(@, p - b, data, n)]
  ELSE h
Wr(h, p, data) == WrIn(h, BlockOf(p), p, data, RLen(data))

\* little-endian unsigned integers of w bytes (the packed header fields)
RECURSIVE LEBytes(_, _)
LEBytes(v, w) ==
  IF w = 0 THEN <<>> ELSE RFill(v % 256, 1) \o LEBytes(v \div 256, w - 1)

RECURSIVE RdInt(_, _, _)
RdInt(h, p, w) ==
  IF w = 0 THEN 0 ELSE Rd(h, p) + 256 * RdInt(h, p + 1, w - 1)

WrInt(h, p, w, v) == Wr(h, p, RNorm(LEBytes(v, w)))

\* ------------------------------------------------------------ the allocator
\* m is the machine a call runs on: [heap, calls, ub].  calls logs every
\* allocator call of the running operation; ub is set when a call has
\* undefined behaviour (freeing or reallocating an address that is not the
\* start of a live block, writing outside every live block).

FreeAddr(h) ==
  SlotStride * (CHOOSE k \in 1..NSlots :
                  /\ SlotStride * k \notin DOMAIN h
                  /\ \A j \in 1..(k - 1) : SlotStride * j \in DOMAIN h)
HasFree(h, k) == Cardinality(DOMAIN h) + k <= NSlots

Extend(h, a, bytes) == [p \in DOMAIN h \cup {a} |-> IF p = a THEN bytes ELSE h[p]]
Remove(h, a) == [p \in DOMAIN h \ {a} |-> h[p]]

Call(fn, ptr, size, ret, ok) ==
  [fn |-> fn, ptr |-> ptr, size |-> size, ret |-> ret, ok |-> ok]

\* malloc() hands out the lowest free address; the block is uninitialised
MallocAt(m, size, ptr) ==
  [m |-> [m EXCEPT !.heap = Extend(@, ptr, RFill(Undef, size)),
                   !.calls = Append(@, Call("malloc", NULL, size, ptr, TRUE))],
   ret |-> ptr]
\* m.oom = k > 0: the k-th call of malloc()/realloc() from now on fails; the
\* hook set with ni_malloc_set_oom_handler returns, so the caller goes on with
\* the null pointer.  m.oom = 0: no call fails.
OomTick(m) == [m EXCEPT !.oom = IF @ > 0 THEN @ - 1 ELSE 0]

ni_malloc(m, size) ==
  IF m.oom = 1
  THEN [m |-> [OomTick(m) EXCEPT
                 !.calls = Append(@, Call("malloc", NULL, size, NULL, TRUE))],
        ret |-> NULL]
  ELSE MallocAt(OomTick(m), size, FreeAddr(m.heap))

\* realloc() keeps the first min(old size, size) bytes and lands at newptr
ReallocAt(m, ptr, size, newptr) ==
  [m |-> [m EXCEPT
            !.heap = Extend(Remove(@, ptr), newptr,
                            RCat(RTake(m.heap[ptr], size),
                                 RFill(Undef, size - RLen(m.heap[ptr])))),
            !.calls = Append(@, Call("realloc", ptr, size, newptr, TRUE))],
   ret |-> newptr]

\* A faulty variant of ni_realloc: a failing realloc() releases the old block.
ni_realloc_failure_frees(m, ptr, size, mv) ==
  IF ptr = NULL THEN ni_malloc(m, size)
  ELSE IF ptr \notin DOMAIN m.heap
  THEN [m |-> [m EXCEPT !.ub = TRUE,
                        !.calls = Append(@, Call("realloc", ptr, size, ptr, FALSE))],
        ret |-> ptr]
  ELSE IF m.oom = 1
  THEN [m |-> [OomTick(m) EXCEPT
                 !.heap = Remove(@, ptr),
                 !.calls = Append(@, Call("realloc", ptr, size, NULL, TRUE))],
        ret |-> NULL]
  ELSE ReallocAt(OomTick(m), ptr, size, IF mv THEN FreeAddr(m.heap) ELSE ptr)

\* mv: whether realloc() moves the block (the C library decides)
ni_realloc(m, ptr, size, mv) ==
  IF ptr = NULL THEN ni_malloc(m, size)
  ELSE IF ptr \notin DOMAIN m.heap
  THEN [m |-> [m EXCEPT !.ub = TRUE,
                        !.calls = Append(@, Call("realloc", ptr, size, ptr, FALSE))],
        ret |-> ptr]
  ELSE IF m.oom = 1
  THEN \* realloc() fails: the old block stays as it is
       [m |-> [OomTick(m) EXCEPT
                 !.calls = Append(@, Call("realloc", ptr, size, NULL, TRUE))],
        ret |-> NULL]
  ELSE ReallocAt(OomTick(m), ptr, size, IF mv THEN FreeAddr(m.heap) ELSE ptr)

ni_free(m, ptr) ==
  IF ptr = NULL THEN m
  ELSE IF ptr \notin DOMAIN m.heap
  THEN [m EXCEPT !.ub = TRUE,
                 !.calls = Append(@, Call("free", ptr, 0, NULL, FALSE))]
  ELSE [m EXCEPT !.heap = Remove(@, ptr),
                 !.calls = Append(@, Call("free", ptr, 0, NULL, TRUE))]

ni_string_malloc(m, size) == ni_malloc(m, size)
ni_string_realloc(m, ptr, size, mv) == ni_realloc(m, ptr, size, mv)
ni_string_ptr_free(m, ptr) == ni_free(m, ptr)

\* ------------------------------------------------------------- header codec
\* T is the width of the length field in bits (8, 16, 32, 64).
SizeofHdr(T) == IF T = 5 THEN 1 ELSE 2 * (T \div 8) + 1
HdrLenAddr(T, s) == s - SizeofHdr(T)
HdrAllocAddr(T, s) == s - SizeofHdr(T) + (T \div 8)
\* width in bits of the fields of header type 1..4 (8, 16, 32, 64)
FieldBits(type) == 2 ^ (type + 2)

TypeOf(flags) == flags % (NI_STRING_TYPE_MASK + 1)
NI_STRING_TYPE_5_LEN(f) == f \div (2 ^ NI_STRING_TYPE_BITS)
\* the value an unsigned char holds after  type | (len << NI_STRING_TYPE_BITS)
Type5Flags(len) == (NI_STRING_TYPE_5 + len * (2 ^ NI_STRING_TYPE_BITS)) % 256

\* NI_STRING_HDR(T, s)->len and ->alloc of a header of type 1..4
ShLen(h, s, type) ==
  RdInt(h, HdrLenAddr(FieldBits(type), s), FieldBits(type) \div 8)
ShAlloc(h, s, type) ==
  RdInt(h, HdrAllocAddr(FieldBits(type), s), FieldBits(type) \div 8)
SetShLen(h, s, type, v) ==
  WrInt(h, HdrLenAddr(FieldBits(type), s), FieldBits(type) \div 8, v)
SetShAlloc(h, s, type, v) ==
  WrInt(h, HdrAllocAddr(FieldBits(type), s), FieldBits(type) \div 8, v)

ni_string_hdr_size(type) ==
  CASE TypeOf(type) = NI_STRING_TYPE_5 -> SizeofHdr(5)
    [] TypeOf(type) = NI_STRING_TYPE_8 -> SizeofHdr(8)
    [] TypeOf(type) = NI_STRING_TYPE_16 -> SizeofHdr(16)
    [] TypeOf(type) = NI_STRING_TYPE_32 -> SizeofHdr(32)
    [] TypeOf(type) = NI_STRING_TYPE_64 -> SizeofHdr(64)
    [] OTHER -> 0

\* A faulty variant of ni_string_req_type: each bound is taken inclusive, so
\* the largest length of a variant's range is given the variant below.
ni_string_req_type_inclusive(ni_string_size) ==
  IF ni_string_size <= 2 ^ 5 THEN NI_STRING_TYPE_5
  ELSE IF ni_string_size <= 2 ^ 8 THEN NI_STRING_TYPE_8
  ELSE IF ni_string_size <= 2 ^ 16 THEN NI_STRING_TYPE_16
  ELSE NI_STRING_TYPE_32

ni_string_req_type(ni_string_size) ==
  IF ni_string_size < 2 ^ 5 THEN NI_STRING_TYPE_5
  ELSE IF ni_string_size < 2 ^ 8 THEN NI_STRING_TYPE_8
  ELSE IF ni_string_size < 2 ^ 16 THEN NI_STRING_TYPE_16
  ELSE IF ni_string_size \div (2 ^ 16) < 2 ^ 16 THEN NI_STRING_TYPE_32
  ELSE NI_STRING_TYPE_64

\* The switches on flags & NI_STRING_TYPE_MASK: the arm of variant 5, one arm
\* for the four variants with fields, and the fall-through of the values 5..7.
ni_string_len(h, s) ==
  LET Switch(flags) ==
        IF TypeOf(flags) = NI_STRING_TYPE_5 THEN NI_STRING_TYPE_5_LEN(flags)
        ELSE IF TypeOf(flags) <= NI_STRING_TYPE_64
        THEN ShLen(h, s, TypeOf(flags))
        ELSE 0
  IN Switch(Rd(h, s - 1))

ni_string_alloc(h, s) ==
  LET Switch(flags) ==
        IF TypeOf(flags) = NI_STRING_TYPE_5 THEN NI_STRING_TYPE_5_LEN(flags)
        ELSE IF TypeOf(flags) <= NI_STRING_TYPE_64
        THEN ShAlloc(h, s, TypeOf(flags))
        ELSE 0
  IN Switch(Rd(h, s - 1))

\* sh->alloc - sh->len; never negative while len <= alloc holds
ni_string_avail(h, s) ==
  LET Switch(flags) ==
        IF TypeOf(flags) = NI_STRING_TYPE_5 THEN 0
        ELSE IF TypeOf(flags) <= NI_STRING_TYPE_64
        THEN ShAlloc(h, s, TypeOf(flags)) - ShLen(h, s, TypeOf(flags))
        ELSE 0
  IN Switch(Rd(h, s - 1))

ni_string_set_len(h, s, newlen) ==
  LET Switch(flags) ==
        IF TypeOf(flags) = NI_STRING_TYPE_5
        THEN Wr(h, s - 1, RFill(Type5Flags(newlen), 1))
        ELSE IF TypeOf(flags) <= NI_STRING_TYPE_64
        THEN SetShLen(h, s, TypeOf(flags), newlen)
        ELSE h
  IN Switch(Rd(h, s - 1))

ni_string_set_alloc(h, s, newlen) ==
  LET Switch(flags) ==
        IF TypeOf(flags) = NI_STRING_TYPE_5 THEN h
        ELSE IF TypeOf(flags) <= NI_STRING_TYPE_64
        THEN SetShAlloc(h, s, TypeOf(flags), newlen)
        ELSE h
  IN Switch(Rd(h, s - 1))

\* A faulty variant of WriteHdr: sh->len = initlen is left out.
WriteHdrNoLen(h, s, type, initlen) ==
  IF type = NI_STRING_TYPE_5 THEN Wr(h, s - 1, RFill(Type5Flags(initlen), 1))
  ELSE Wr(SetShAlloc(h, s, type, initlen), s - 1, RFill(type, 1))

\* the switch in ni_string_new_len that fills in a header of the given type
WriteHdr(h, s, type, initlen) ==
  IF type = NI_STRING_TYPE_5 THEN Wr(h, s - 1, RFill(Type5Flags(initlen), 1))
  ELSE Wr(SetShAlloc(SetShLen(h, s, type, initlen), s, type, initlen),
          s - 1, RFill(type, 1))

\* ------------------------------------------------------- string operations
\* Each operator takes the machine m and returns [m |-> machine, s |-> handle].
\* init is [kind |-> "bytes" | "null" | "noinit", data |-> the bytes at init].

ni_string_new_len(m, init, initlen) ==
  LET type == IF ni_string_req_type(initlen) = NI_STRING_TYPE_5 /\ initlen = 0
              THEN NI_STRING_TYPE_8 ELSE ni_string_req_type(initlen)
      Fill(r, hdrlen) ==
        LET s == r.ret + hdrlen
            h1 == IF init.kind = "null"
                  THEN Wr(r.m.heap, r.ret, RFill(0, hdrlen + initlen + 1))
                  ELSE r.m.heap
            h2 == WriteHdr(h1, s, type, initlen)
            h3 == IF initlen # 0 /\ init.kind = "bytes"
                  THEN Wr(h2, s, RTake(init.data, initlen)) ELSE h2
        IN [m |-> [r.m EXCEPT !.heap = Wr(h3, s + initlen, RFill(0, 1))],
            s |-> s]
      \* memset(sh, 0, ...) comes before  if (sh == NULL) return NULL;
      Got(r, hdrlen) ==
        IF r.ret = NULL
        THEN [m |-> IF init.kind = "null" THEN [r.m EXCEPT !.ub = TRUE] ELSE r.m,
              s |-> NULL]
        ELSE Fill(r, hdrlen)
      Alloc(hdrlen) == Got(ni_string_malloc(m, hdrlen + initlen + 1), hdrlen)
  IN Alloc(ni_string_hdr_size(type))

ni_string_free(m, s) ==
  IF s = NULL THEN m
  ELSE ni_string_ptr_free(m, s - ni_string_hdr_size(Rd(m.heap, s - 1)))

\* A faulty variant of ni_string_clear: s[0] = '\0' is left out.
ni_string_clear_no_term(m, s) ==
  [m |-> [m EXCEPT !.heap = ni_string_set_len(@, s, 0)], s |-> s]

ni_string_clear(m, s) ==
  [m |-> [m EXCEPT !.heap = Wr(ni_string_set_len(@, s, 0), s, RFill(0, 1))],
   s |-> s]

\* A faulty variant of MoveToType: memcpy copies len bytes, not len + 1, so
\* the terminator does not follow the content into the new block.
MoveToTypeNoTerm(r, s, sh, len, type, hdrlen) ==
  LET s1 == r.ret + hdrlen
      Finish(m2) ==
        [m |-> [m2 EXCEPT !.heap = ni_string_set_len(
                                     Wr(@, s1 - 1, RFill(type, 1)), s1, len)],
         s |-> s1]
  IN Finish(ni_string_ptr_free(
              [r.m EXCEPT !.heap = Wr(@, s1, RdBytes(r.m.heap, s, len))],
              sh))

\* The branch of ni_string_make_room_for and ni_string_remove_free_space that
\* changes the header type: a new block, the content and its terminator
\* copied, the old block freed, the flags and the length written.
\* r is the result of the malloc, sh the old block.
MoveToType(r, s, sh, len, type, hdrlen) ==
  LET s1 == r.ret + hdrlen
      Finish(m2) ==
        [m |-> [m2 EXCEPT !.heap = ni_string_set_len(
                                     Wr(@, s1 - 1, RFill(type, 1)), s1, len)],
         s |-> s1]
  IN IF r.ret = NULL THEN [m |-> r.m, s |-> NULL]   \* return NULL
     ELSE Finish(ni_string_ptr_free(
                   [r.m EXCEPT !.heap = Wr(@, s1, RdBytes(r.m.heap, s, len + 1))],
                   sh))

\* A faulty variant of SetAllocOf: ni_string_set_alloc is not called, so the
\* header keeps the capacity it had.
SetAllocSkipped(r, newlen) == r

\* the final ni_string_set_alloc(s, newlen) of both functions, not reached
\* after  if (newsh == NULL) return NULL;
SetAllocOf(r, newlen) ==
  IF r.s = NULL THEN r
  ELSE [m |-> [r.m EXCEPT !.heap = ni_string_set_alloc(@, r.s, newlen)],
        s |-> r.s]

\* the realloc branch of both: the handle sits hdrlen behind the new block
ReallocTo(r, hdrlen) ==
  [m |-> r.m, s |-> IF r.ret = NULL THEN NULL ELSE r.ret + hdrlen]

\* A faulty variant of GrowLen: the length is doubled above the threshold too.
GrowLenDoubling(newlen) == newlen * 2

\* newlen = (len + addlen); if (newlen < NI_STRING_MAX_PREALLOC) newlen *= 2;
\* else newlen += NI_STRING_MAX_PREALLOC;
GrowLen(newlen) ==
  IF newlen < NI_STRING_MAX_PREALLOC THEN newlen * 2
  ELSE newlen + NI_STRING_MAX_PREALLOC

\* A faulty variant of GrowType: a computed variant 5 is kept.
GrowTypeNoPromote(newlen) == ni_string_req_type(newlen)

\* type = ni_string_req_type(newlen);
\* if (type == NI_STRING_TYPE_5) type = NI_STRING_TYPE_8;
GrowType(newlen) ==
  IF ni_string_req_type(newlen) = NI_STRING_TYPE_5
  THEN NI_STRING_TYPE_8 ELSE ni_string_req_type(newlen)

ni_string_make_room_for(m, s, addlen, mv) ==
  LET Grow(len, oldtype) ==
        LET sh == s - ni_string_hdr_size(oldtype)
            newlen == GrowLen(len + addlen)
            type == GrowType(newlen)
            hdrlen == ni_string_hdr_size(type)
        IN SetAllocOf(
             IF oldtype = type
             THEN ReallocTo(ni_string_realloc(m, sh, hdrlen + newlen + 1, mv),
                            hdrlen)
             ELSE MoveToType(ni_string_malloc(m, hdrlen + newlen + 1),
                             s, sh, len, type, hdrlen),
             newlen)
      Check(avail) ==
        IF avail >= addlen THEN [m |-> m, s |-> s]
        ELSE Grow(ni_string_len(m.heap, s), TypeOf(Rd(m.heap, s - 1)))
  IN Check(ni_string_avail(m.heap, s))

\* A variant of ni_string_remove_free_space that keeps the block only when
\* the variant stays the same, and moves to the minimal variant otherwise.
ni_string_remove_free_space_exact(m, s, mv) ==
  LET Shrink(len, oldtype) ==
        LET oldhdrlen == ni_string_hdr_size(oldtype)
            sh == s - oldhdrlen
            type == ni_string_req_type(len)
            hdrlen == ni_string_hdr_size(type)
        IN SetAllocOf(
             IF oldtype = type
             THEN ReallocTo(ni_string_realloc(m, sh, oldhdrlen + len + 1, mv),
                            oldhdrlen)
             ELSE MoveToType(ni_string_malloc(m, hdrlen + len + 1),
                             s, sh, len, type, hdrlen),
             len)
      Check(avail) ==
        IF avail = 0 THEN [m |-> m, s |-> s]
        ELSE Shrink(ni_string_len(m.heap, s), TypeOf(Rd(m.heap, s - 1)))
  IN Check(ni_string_avail(m.heap, s))

\* A faulty variant of ni_string_remove_free_space: the early return for a
\* buffer without spare capacity is left out.
ni_string_remove_free_space_no_check(m, s, mv) ==
  LET Shrink(len, oldtype) ==
        LET oldhdrlen == ni_string_hdr_size(oldtype)
            sh == s - oldhdrlen
            type == ni_string_req_type(len)
            hdrlen == ni_string_hdr_size(type)
        IN SetAllocOf(
             IF oldtype = type \/ type > NI_STRING_TYPE_8
             THEN ReallocTo(ni_string_realloc(m, sh, oldhdrlen + len + 1, mv),
                            oldhdrlen)
             ELSE MoveToType(ni_string_malloc(m, hdrlen + len + 1),
                             s, sh, len, type, hdrlen),
             len)
  IN Shrink(ni_string_len(m.heap, s), TypeOf(Rd(m.heap, s - 1)))

ni_string_remove_free_space(m, s, mv) ==
  LET Shrink(len, oldtype) ==
        LET oldhdrlen == ni_string_hdr_size(oldtype)
            sh == s - oldhdrlen
            type == ni_string_req_type(len)
            hdrlen == ni_string_hdr_size(type)
        IN SetAllocOf(
             IF oldtype = type \/ type > NI_STRING_TYPE_8
             THEN ReallocTo(ni_string_realloc(m, sh, oldhdrlen + len + 1, mv),
                            oldhdrlen)
             ELSE MoveToType(ni_string_malloc(m, hdrlen + len + 1),
                             s, sh, len, type, hdrlen),
             len)
      Check(avail) ==
        IF avail = 0 THEN [m |-> m, s |-> s]
        ELSE Shrink(ni_string_len(m.heap, s), TypeOf(Rd(m.heap, s - 1)))
  IN Check(ni_string_avail(m.heap, s))

\* Returns [m, s, ok]: ok is FALSE when the assertion failed.  The casts
\* (unsigned int)(-incr) and (uint64_t)incr are the identity below 2^31, and
\* sh->alloc - sh->len does not wrap while len <= alloc.
ni_string_incr_len(m, s, incr) ==
  LET \* s[len] = '\0' on the heap h1 left by the switch
      Term(h1, len) ==
        [m |-> [m EXCEPT !.heap = Wr(h1, s + len, RFill(0, 1)),
                         !.ub = @ \/ ~InHeap(h1, s + len, 1)],
         s |-> s, ok |-> TRUE]
      Type5(oldlen) ==
        IF ~((incr > 0 /\ oldlen + incr < 32) \/ (incr < 0 /\ oldlen >= -incr))
        THEN [m |-> m, s |-> s, ok |-> FALSE]
        ELSE Term(Wr(m.heap, s - 1, RFill(Type5Flags(oldlen + incr), 1)),
                  oldlen + incr)
      \* len = (sh->len += incr), truncated to the width of the field
      Fields(type, shlen, shalloc) ==
        IF ~((incr >= 0 /\ shalloc - shlen >= incr) \/ (incr < 0 /\ shlen >= -incr))
        THEN [m |-> m, s |-> s, ok |-> FALSE]
        ELSE LET len == IF type \in {NI_STRING_TYPE_8, NI_STRING_TYPE_16}
                        THEN (shlen + incr) % (2 ^ FieldBits(type))
                        ELSE shlen + incr
             IN Term(SetShLen(m.heap, s, type, len), len)
      Switch(flags) ==
        IF TypeOf(flags) = NI_STRING_TYPE_5
        THEN Type5(NI_STRING_TYPE_5_LEN(flags))
        ELSE IF TypeOf(flags) <= NI_STRING_TYPE_64
        THEN Fields(TypeOf(flags), ShLen(m.heap, s, TypeOf(flags)),
                    ShAlloc(m.heap, s, TypeOf(flags)))
        ELSE Term(m.heap, 0)
  IN Switch(Rd(m.heap, s - 1))

ni_string_grow_zero(m, s, len, mv) ==
  LET Zero(r, curlen) ==
        [m |-> [r.m EXCEPT
                  !.heap = ni_string_set_len(
                             Wr(@, r.s + curlen, RFill(0, len - curlen + 1)),
                             r.s, len)],
         s |-> r.s]
      Grow(curlen) ==
        IF len <= curlen THEN [m |-> m, s |-> s]
        ELSE Zero(ni_string_make_room_for(m, s, len - curlen, mv), curlen)
  IN Grow(ni_string_len(m.heap, s))

\* A faulty variant of ni_string_cat_len: ni_string_set_len is left out.
ni_string_cat_len_no_set_len(m, s, t, len, mv) ==
  LET Copy(r, curlen) ==
        [m |-> [r.m EXCEPT
                  !.heap = Wr(Wr(@, r.s + curlen, RTake(t, len)),
                              r.s + curlen + len, RFill(0, 1))],
         s |-> r.s]
  IN Copy(ni_string_make_room_for(m, s, len, mv), ni_string_len(m.heap, s))

\* t is the source memory (not part of the buffer), len the bytes to append
ni_string_cat_len(m, s, t, len, mv) ==
  LET Copy(r, curlen) ==
        IF r.s = NULL THEN r   \* if (s == NULL) return NULL;
        ELSE
        [m |-> [r.m EXCEPT
                  !.heap = Wr(ni_string_set_len(
                                Wr(@, r.s + curlen, RTake(t, len)),
                                r.s, curlen + len),
                              r.s + curlen + len, RFill(0, 1))],
         s |-> r.s]
  IN Copy(ni_string_make_room_for(m, s, len, mv), ni_string_len(m.heap, s))

\* A faulty variant of ni_string_cpy_len: ni_string_set_len is left out.
ni_string_cpy_len_no_set_len(m, s, t, len, mv) ==
  LET Copy(r) ==
        [m |-> [r.m EXCEPT
                  !.heap = Wr(Wr(@, r.s, RTake(t, len)), r.s + len, RFill(0, 1))],
         s |-> r.s]
      Room(alloc) ==
        IF alloc < len
        THEN ni_string_make_room_for(m, s, len - ni_string_len(m.heap, s), mv)
        ELSE [m |-> m, s |-> s]
  IN Copy(Room(ni_string_alloc(m.heap, s)))

ni_string_cpy_len(m, s, t, len, mv) ==
  LET Copy(r) ==
        [m |-> [r.m EXCEPT
                  !.heap = ni_string_set_len(
                             Wr(Wr(@, r.s, RTake(t, len)), r.s + len, RFill(0, 1)),
                             r.s, len)],
         s |-> r.s]
      Room(alloc) ==
        IF alloc < len
        THEN ni_string_make_room_for(m, s, len - ni_string_len(m.heap, s), mv)
        ELSE [m |-> m, s |-> s]
  IN Copy(Room(ni_string_alloc(m.heap, s)))

\* ------------------------------------------------------- trim and range
\* strchr(cset, c) # NULL: c occurs in the C string cset, or c is the zero
\* byte, which strchr finds at the terminator of cset
InCset(cset, c) == IF c = 0 THEN TRUE ELSE \E k \in 1..Len(cset) : cset[k] = c

RECURSIVE LeadIn(_, _)
\* number of leading bytes of r that are in cset
LeadIn(r, cset) ==
  IF r = <<>> THEN 0
  ELSE IF InCset(cset, r[1].b) THEN r[1].n + LeadIn(Tail(r), cset)
  ELSE 0

RECURSIVE RRev(_)
RRev(r) == IF r = <<>> THEN <<>> ELSE Append(RRev(Tail(r)), r[1])

ni_string_trim(m, s, cset) ==
  LET \* memmove, terminator and length, for sp - s and the new length
      Move(rest, sp, len) ==
        [m |-> [m EXCEPT
                  !.heap = ni_string_set_len(
                             Wr(IF sp # 0 THEN Wr(@, s, RTake(rest, len)) ELSE @,
                                s + len, RFill(0, 1)),
                             s, len)],
         s |-> s]
      \* the second loop stops at ep = sp, whose byte is not in cset
      Back(rest, sp) == Move(rest, sp, RLen(rest) - LeadIn(RRev(rest), cset))
      \* sp - s after the first loop, and the bytes from sp to end
      Front(data, sp) == Back(RDrop(data, sp), sp)
      Scan(data) == Front(data, LeadIn(data, cset))
      Read(oldlen) == Scan(RdBytes(m.heap, s, oldlen))
  IN Read(ni_string_len(m.heap, s))

\* ni_string_range without its memmove
ni_string_range_no_move(m, s, start, end) ==
  LET Cut(len) ==
        LET start1 == IF start < 0
                      THEN (IF len + start < 0 THEN 0 ELSE len + start) ELSE start
            end1 == IF end < 0
                    THEN (IF len + end < 0 THEN 0 ELSE len + end) ELSE end
            newlen0 == IF start1 > end1 THEN 0 ELSE (end1 - start1) + 1
            end2 == IF newlen0 # 0 /\ start1 < len /\ end1 >= len
                    THEN len - 1 ELSE end1
            newlen == IF newlen0 # 0
                      THEN (IF start1 >= len THEN 0
                            ELSE IF end1 >= len
                            THEN (IF start1 > end2 THEN 0 ELSE (end2 - start1) + 1)
                            ELSE newlen0)
                      ELSE 0
        IN IF len = 0 THEN [m |-> m, s |-> s]
           ELSE [m |-> [m EXCEPT
                          !.heap = ni_string_set_len(
                                     Wr(@, s + newlen, RFill(0, 1)), s, newlen)],
                 s |-> s]
  IN Cut(ni_string_len(m.heap, s))

ni_string_range(m, s, start, end) ==
  LET Cut(len) ==
        LET start1 == IF start < 0
                      THEN (IF len + start < 0 THEN 0 ELSE len + start) ELSE start
            end1 == IF end < 0
                    THEN (IF len + end < 0 THEN 0 ELSE len + end) ELSE end
            newlen0 == IF start1 > end1 THEN 0 ELSE (end1 - start1) + 1
            end2 == IF newlen0 # 0 /\ start1 < len /\ end1 >= len
                    THEN len - 1 ELSE end1
            newlen == IF newlen0 # 0
                      THEN (IF start1 >= len THEN 0
                            ELSE IF end1 >= len
                            THEN (IF start1 > end2 THEN 0 ELSE (end2 - start1) + 1)
                            ELSE newlen0)
                      ELSE 0
            start2 == IF newlen0 # 0 THEN start1 ELSE 0
        IN IF len = 0 THEN [m |-> m, s |-> s]
           ELSE [m |-> [m EXCEPT
                          !.heap = ni_string_set_len(
                                     Wr(IF start2 # 0 /\ newlen # 0
                                        THEN Wr(@, s, RdBytes(@, s + start2, newlen))
                                        ELSE @,
                                        s + newlen, RFill(0, 1)),
                                     s, newlen)],
                 s |-> s]
  IN Cut(ni_string_len(m.heap, s))

\* ----------------------------------------------------------------- compare
RECURSIVE memcmp(_, _)
\* memcmp over two byte strings of equal length: the difference of the first
\* two bytes that differ, as unsigned chars (the C standard fixes its sign
\* only), 0 when there is none
memcmp(a, b) ==
  IF a = <<>> \/ b = <<>> THEN 0
  ELSE IF a[1].b # b[1].b THEN a[1].b - b[1].b
  ELSE IF a[1].n <= b[1].n THEN memcmp(Tail(a), RDrop(b, a[1].n))
  ELSE memcmp(RDrop(a, b[1].n), Tail(b))

\* ni_string_cmp that returns the result of memcmp as it is
ni_string_cmp_memcmp_only(h, s1, s2) ==
  LET Cmp(l1, l2, minlen) ==
        memcmp(RdBytes(h, s1, minlen), RdBytes(h, s2, minlen))
      Lens(l1, l2) == Cmp(l1, l2, IF l1 < l2 THEN l1 ELSE l2)
  IN Lens(ni_string_len(h, s1), ni_string_len(h, s2))

ni_string_cmp(h, s1, s2) ==
  LET Decide(l1, l2, cmp) ==
        IF cmp = 0 THEN (IF l1 > l2 THEN 1 ELSE IF l1 < l2 THEN -1 ELSE 0)
        ELSE cmp
      Cmp(l1, l2, minlen) ==
        Decide(l1, l2, memcmp(RdBytes(h, s1, minlen), RdBytes(h, s2, minlen)))
      Lens(l1, l2) == Cmp(l1, l2, IF l1 < l2 THEN l1 ELSE l2)
  IN Lens(ni_string_len(h, s1), ni_string_len(h, s2))

\* ------------------------------------------------------------------- split
\* The token vector is a block of pointers: tokens[i] is the PtrSize bytes at
\* tokens + PtrSize * i.
TokenAt(h, tokens, i) == RdInt(h, tokens + PtrSize * i, PtrSize)
SetTokenAt(h, tokens, i, s) == WrInt(h, tokens + PtrSize * i, PtrSize, s)

\* The state of the loop of ni_string_split_len: c = [m, tokens, elements,
\* slots, start, failed]; failed is set by a goto cleanup.
\* tokens[elements] = ni_string_new_len(s + start, n);
\* if (tokens[elements] == NULL) goto cleanup; elements++;
PushToken(c, s, n) ==
  LET Store(r) ==
        [c EXCEPT !.m = [r.m EXCEPT
                           !.heap = SetTokenAt(@, c.tokens, c.elements, r.s)],
                  !.elements = IF r.s = NULL THEN @ ELSE @ + 1,
                  !.failed = (r.s = NULL)]
  IN Store(ni_string_new_len(c.m,
             [kind |-> "bytes", data |-> RFromSeq(SubSeq(s, c.start + 1, c.start + n))],
             n))

\* slots *= 2; newtokens = ni_string_realloc(tokens, sizeof(ni_string) * slots);
\* if (newtokens == NULL) goto cleanup; tokens = newtokens;
GrowTokens(c, mv) ==
  LET Keep(r) ==
        IF r.ret = NULL THEN [c EXCEPT !.m = r.m, !.slots = 2 * @, !.failed = TRUE]
        ELSE [c EXCEPT !.m = r.m, !.tokens = r.ret, !.slots = 2 * @]
  IN Keep(ni_string_realloc(c.m, c.tokens, PtrSize * (2 * c.slots), mv))

RECURSIVE SplitLoop(_, _, _, _, _, _, _)
\* j is the loop index; s and sep are sequences, so s[j + 1] is *(s + j)
SplitLoop(c, s, len, sep, seplen, j, mv) ==
  IF c.failed \/ j >= len - (seplen - 1) THEN c
  ELSE LET Search(c1) ==
             IF c1.failed THEN c1
             ELSE IF SubSeq(s, j + 1, j + seplen) = SubSeq(sep, 1, seplen)
             THEN SplitLoop([PushToken(c1, s, j - c1.start)
                               EXCEPT !.start = j + seplen],
                            s, len, sep, seplen, j + seplen, mv)
             ELSE SplitLoop(c1, s, len, sep, seplen, j + 1, mv)
       IN Search(IF c.slots < c.elements + 2 THEN GrowTokens(c, mv) ELSE c)

\* ni_string_split_len that leaves out the final element
ni_string_split_len_no_last(m, s, len, sep, seplen, mv) ==
  LET Result(c) == [m |-> c.m, tokens |-> c.tokens, count |-> c.elements]
      Scan(r) ==
        IF len = 0 THEN [m |-> r.m, tokens |-> r.ret, count |-> 0]
        ELSE Result(SplitLoop([m |-> r.m, tokens |-> r.ret, elements |-> 0,
                               slots |-> 5, start |-> 0, failed |-> FALSE],
                              s, len, sep, seplen, 0, mv))
  IN IF seplen < 1 \/ len < 0 THEN [m |-> m, tokens |-> NULL, count |-> 0]
     ELSE Scan(ni_string_malloc(m, PtrSize * 5))

RECURSIVE CleanupTokens(_, _, _, _)
\* for (i = 0; i < elements; i++) ni_string_ptr_free(tokens[i]);
CleanupTokens(m, tokens, i, elements) ==
  IF i >= elements THEN m
  ELSE CleanupTokens(ni_string_ptr_free(m, TokenAt(m.heap, tokens, i)),
                     tokens, i + 1, elements)

\* Returns [m, tokens, count]
ni_string_split_len(m, s, len, sep, seplen, mv) ==
  LET \* cleanup: the tokens and the vector are released; *count = 0; return NULL
      Result(c) ==
        IF c.failed
        THEN [m |-> ni_string_ptr_free(
                      CleanupTokens(c.m, c.tokens, 0, c.elements), c.tokens),
              tokens |-> NULL, count |-> 0]
        ELSE [m |-> c.m, tokens |-> c.tokens, count |-> c.elements]
      Last(c) == Result(IF c.failed THEN c ELSE PushToken(c, s, len - c.start))
      Scan(r) ==
        IF r.ret = NULL THEN [m |-> r.m, tokens |-> NULL, count |-> 0]
        ELSE IF len = 0 THEN [m |-> r.m, tokens |-> r.ret, count |-> 0]
        ELSE Last(SplitLoop([m |-> r.m, tokens |-> r.ret, elements |-> 0,
                             slots |-> 5, start |-> 0, failed |-> FALSE],
                            s, len, sep, seplen, 0, mv))
  IN IF seplen < 1 \/ len < 0 THEN [m |-> m, tokens |-> NULL, count |-> 0]
     ELSE Scan(ni_string_malloc(m, PtrSize * 5))

RECURSIVE FreeTokens(_, _, _)
\* while (count--) ni_string_ptr_free(tokens[count]);
FreeTokens(m, tokens, count) ==
  IF count = 0 THEN m
  ELSE FreeTokens(ni_string_ptr_free(m, TokenAt(m.heap, tokens, count - 1)),
                  tokens, count - 1)

ni_string_free_split_res(m, tokens, count) ==
  IF tokens = NULL THEN m
  ELSE ni_string_ptr_free(FreeTokens(m, tokens, count), tokens)

\* ----------------------------------------------------------------- cat_fmt
\* A long long or unsigned long long value is [neg, mag]: its sign and its
\* magnitude <<d2, d1, d0>> = d2 * Limb^2 + d1 * Limb + d0, each d below Limb.
Limb == 1000000000
LLONG_MIN_MAG == <<9, 223372036, 854775808>>
\* v % 10 and v / 10 on an unsigned long long
LLMod10(v) == v[3] % 10
LLDiv10(v) ==
  << v[1] \div 10,
     (v[1] % 10) * (Limb \div 10) + v[2] \div 10,
     (v[2] % 10) * (Limb \div 10) + v[3] \div 10 >>

RECURSIVE RevDigits(_)
\* do { *p++ = '0' + (v % 10); v /= 10; } while (v);
RevDigits(v) ==
  <<48 + LLMod10(v)>>
    \o (IF LLDiv10(v) = <<0, 0, 0>> THEN <<>> ELSE RevDigits(LLDiv10(v)))

Reverse(q) == <<>> \o [j \in 1..Len(q) |-> q[(Len(q) + 1) - j]]

\* v = (value < 0) ? -value : value;  -value overflows long long, which is
\* undefined behaviour, when value is LLONG_MIN
NegOverflows(value) == value.neg /\ value.mag = LLONG_MIN_MAG

ni_string_ll2str(value) ==
  Reverse(RevDigits(value.mag) \o (IF value.neg THEN <<45>> ELSE <<>>))

ni_string_ull2str(v) == Reverse(RevDigits(v))

\* One argument of the variadic list: [k |-> "s", bytes |-> a C string],
\* [k |-> "S", h |-> heap, s |-> a handle in it], [k |-> "n", neg, mag]: a number.
\* The bytes that the verb `next` copies from argument a:
FmtArgBytes(next, a) ==
  CASE next = 115 -> RFromSeq(a.bytes)
    [] next = 83 -> RdBytes(a.h, a.s, ni_string_len(a.h, a.s))
    [] next \in {105, 73} -> RFromSeq(ni_string_ll2str(a))
    [] OTHER -> RFromSeq(ni_string_ull2str(a.mag))

\* The state of the loop of ni_string_cat_fmt: c = [m, s, i, ap, ok]; f is the
\* index of *f in fmt, whose terminating zero byte is at Len(fmt) + 1.
\* One round appends one piece: the bytes of a verb's argument, after making
\* room for them, or the single byte of the two default arms.
RECURSIVE CatFmtLoop(_, _, _, _, _)
CatFmtLoop(c, fmt, f, args, mv) ==
  IF ~c.ok \/ c.m.ub THEN c
  ELSE IF f > Len(fmt) + 1
  THEN \* *f is read past the terminating zero byte of fmt
       [c EXCEPT !.m.ub = TRUE]
  ELSE IF f = Len(fmt) + 1
  THEN [c EXCEPT !.m.heap = Wr(@, c.s + c.i, RFill(0, 1))]
  ELSE
    LET next == IF f + 1 > Len(fmt) THEN 0 ELSE fmt[f + 1]
        verb == fmt[f] = 37 /\ next \in {115, 83, 105, 73, 117, 85}
        Round(r3, l) ==
          CatFmtLoop([m |-> r3.m, s |-> r3.s, i |-> c.i + l,
                      ap |-> IF verb THEN c.ap + 1 ELSE c.ap, ok |-> r3.ok],
                     fmt, IF fmt[f] = 37 THEN f + 2 ELSE f + 1, args, mv)
        Put(r1, str, l) ==
          IF r1.s = NULL
          THEN \* s is used without a check after ni_string_make_room_for
               [c EXCEPT !.m = [r1.m EXCEPT !.ub = TRUE], !.s = NULL]
          ELSE
          Round(ni_string_incr_len([r1.m EXCEPT !.heap = Wr(@, r1.s + c.i, str)],
                                   r1.s, l), l)
        Room(r0, str, l, avail) ==
          Put(IF r0.s # NULL /\ verb /\ avail < l
              THEN ni_string_make_room_for(r0.m, r0.s, l, mv) ELSE r0, str, l)
        Piece(r0, str) ==
          Room(r0, str, RLen(str), ni_string_avail(r0.m.heap, r0.s))
        First(avail) ==
          IF avail = 0 THEN ni_string_make_room_for(c.m, c.s, 1, mv)
          ELSE [m |-> c.m, s |-> c.s]
    IN
    IF verb /\ c.ap > Len(args)
    THEN [c EXCEPT !.m.ub = TRUE]   \* va_arg with no argument left
    ELSE IF verb /\ next \in {105, 73} /\ NegOverflows(args[c.ap])
    THEN [c EXCEPT !.m.ub = TRUE]   \* -value in ni_string_ll2str
    ELSE Piece(First(ni_string_avail(c.m.heap, c.s)),
               IF verb THEN FmtArgBytes(next, args[c.ap])
               ELSE RFill(IF fmt[f] = 37 THEN next ELSE fmt[f], 1))

\* Returns [m, s, ok]: ok is FALSE when an assertion of ni_string_incr_len failed.
ni_string_cat_fmt(m, s, fmt, args, mv) ==
  LET Result(c) == [m |-> c.m, s |-> c.s, ok |-> c.ok]
  IN Result(CatFmtLoop([m |-> m, s |-> s, i |-> ni_string_len(m.heap, s),
                        ap |-> 1, ok |-> TRUE],
                       fmt, 1, args, mv))

\* -------------------------------------------------------------------- join
ni_string_empty(m) ==
  ni_string_new_len(m, [kind |-> "bytes", data |-> <<>>], 0)

\* t = [h, s] is an ni_string of the caller
ni_string_cat_ni_string(m, s, t, mv) ==
  LET Cat(n) == ni_string_cat_len(m, s, RdBytes(t.h, t.s, n), n, mv)
  IN Cat(ni_string_len(t.h, t.s))

\* the loop of ni_string_join_ni_string with the separator appended after
\* every element
RECURSIVE JoinLoopSepAfterEach(_, _, _, _, _, _)
JoinLoopSepAfterEach(r, argv, j, sep, seplen, mv) ==
  IF r.m.ub \/ j > Len(argv) THEN r
  ELSE LET Sep(r1) == ni_string_cat_len(r1.m, r1.s, RFromSeq(sep), seplen, mv)
       IN JoinLoopSepAfterEach(Sep(ni_string_cat_ni_string(r.m, r.s, argv[j], mv)),
                               argv, j + 1, sep, seplen, mv)

\* for (j = 0; j < argc; j++): r = [m, s] is join, argv[j] of the code is
\* argv[j + 1] here
RECURSIVE JoinLoop(_, _, _, _, _, _)
JoinLoop(r, argv, j, sep, seplen, mv) ==
  IF r.m.ub \/ j > Len(argv) THEN r
  ELSE LET Sep(r1) ==
             IF j # Len(argv)
             THEN ni_string_cat_len(r1.m, r1.s, RFromSeq(sep), seplen, mv)
             ELSE r1
       IN JoinLoop(Sep(ni_string_cat_ni_string(r.m, r.s, argv[j], mv)),
                   argv, j + 1, sep, seplen, mv)

ni_string_join_ni_string(m, argv, sep, seplen, mv) ==
  JoinLoop(ni_string_empty(m), argv, 1, sep, seplen, mv)

RECURSIVE RToSeq(_)
\* the bytes of r one by one
RToSeq(r) ==
  IF r = <<>> THEN <<>>
  ELSE <<r[1].b>> \o RToSeq(IF r[1].n = 1 THEN Tail(r)
                            ELSE <<[r[1] EXCEPT !.n = @ - 1]>> \o Tail(r))

\* -------------------------------------------------------------- split_args
\* line is a C string, a sequence of non-zero bytes: *(line + p - 1) is
\* line[p], the terminating zero byte is at Len(line) + 1.
Ch(line, p) ==
  IF p <= Len(line) THEN line[p] ELSE IF p = Len(line) + 1 THEN 0 ELSE Undef

\* isspace() in the "C" locale
isspace(c) == c \in {9, 10, 11, 12, 13, 32}

is_hex_digit(c) == (c >= 48 /\ c <= 57) \/ (c >= 97 /\ c <= 102) \/ (c >= 65 /\ c <= 70)

hex_digit_to_int(c) ==
  IF c >= 48 /\ c <= 57 THEN c - 48
  ELSE IF c >= 97 /\ c <= 102 THEN c - 87
  ELSE IF c >= 65 /\ c <= 70 THEN c - 55
  ELSE 0

\* switch (*p) of an escape in double quotes
Unescape(c) ==
  CASE c = 110 -> 10
    [] c = 114 -> 13
    [] c = 116 -> 9
    [] c = 98 -> 8
    [] c = 97 -> 7
    [] OTHER -> c

RECURSIVE SkipBlanks(_, _)
\* while (*p && isspace(*p)) p++;
SkipBlanks(line, p) ==
  IF Ch(line, p) # 0 /\ isspace(Ch(line, p)) THEN SkipBlanks(line, p + 1) ELSE p

\* One round of while (!done) at *p = ch, followed by n1, n2, n3: what it
\* does (k: "put" a byte to current, "mode" change only, "done", "err"), how
\* far p moves (the final if (*p) p++ included), and the quote flags after it.
TokenStep(ch, n1, n2, n3, inq, insq) ==
  LET Put(b, adv) == [k |-> "put", byte |-> b, adv |-> adv, inq |-> inq, insq |-> insq]
      Err == [k |-> "err", byte |-> 0, adv |-> 0, inq |-> inq, insq |-> insq]
      Stop(adv) == [k |-> "done", byte |-> 0, adv |-> adv, inq |-> inq, insq |-> insq]
  IN IF inq
     THEN IF ch = 92 /\ n1 = 120 /\ is_hex_digit(n2) /\ is_hex_digit(n3)
          THEN Put(hex_digit_to_int(n2) * 16 + hex_digit_to_int(n3), 4)
          ELSE IF ch = 92 /\ n1 # 0 THEN Put(Unescape(n1), 2)
          ELSE IF ch = 34 THEN (IF n1 # 0 /\ ~isspace(n1) THEN Err ELSE Stop(1))
          ELSE IF ch = 0 THEN Err
          ELSE Put(ch, 1)
     ELSE IF insq
     THEN IF ch = 92 /\ n1 = 39 THEN Put(39, 2)
          ELSE IF ch = 39 THEN (IF n1 # 0 /\ ~isspace(n1) THEN Err ELSE Stop(1))
          ELSE IF ch = 0 THEN Err
          ELSE Put(ch, 1)
     ELSE IF ch \in {32, 10, 13, 9, 0} THEN Stop(IF ch = 0 THEN 0 ELSE 1)
     ELSE IF ch = 34
     THEN [k |-> "mode", byte |-> 0, adv |-> 1, inq |-> TRUE, insq |-> insq]
     ELSE IF ch = 39
     THEN [k |-> "mode", byte |-> 0, adv |-> 1, inq |-> inq, insq |-> TRUE]
     ELSE Put(ch, 1)

\* The state of ni_string_split_args: c = [m, current, vector, argc, p, err];
\* err is set by goto err.
RECURSIVE TokenLoop(_, _, _, _, _)
TokenLoop(c, line, inq, insq, mv) ==
  IF c.m.ub THEN c
  ELSE LET Appended(r, adv) ==
             [c EXCEPT !.m = r.m, !.current = r.s, !.p = @ + adv]
           Apply(d) ==
             IF d.k = "err" THEN [c EXCEPT !.err = TRUE]
             ELSE IF d.k = "done" THEN [c EXCEPT !.p = @ + d.adv]
             ELSE TokenLoop(IF d.k = "put"
                            THEN Appended(ni_string_cat_len(c.m, c.current,
                                            RFill(d.byte, 1), 1, mv), d.adv)
                            ELSE [c EXCEPT !.p = @ + d.adv],
                            line, d.inq, d.insq, mv)
       IN Apply(TokenStep(Ch(line, c.p), Ch(line, c.p + 1), Ch(line, c.p + 2),
                          Ch(line, c.p + 3), inq, insq))

\* vector = ni_string_realloc(vector, ...); vector[*argc] = current;
\* (*argc)++; current = NULL;
PushArg(c, r) ==
  [c EXCEPT !.m = [r.m EXCEPT !.heap = SetTokenAt(@, r.ret, c.argc, c.current)],
            !.vector = r.ret, !.argc = @ + 1, !.current = NULL]

RECURSIVE ArgsLoop(_, _, _)
\* while (1)
ArgsLoop(c, line, mv) ==
  LET Start(r, p) == [c EXCEPT !.m = r.m, !.current = r.s, !.p = p]
      Add(c1) ==
        IF c1.err \/ c1.m.ub THEN c1
        ELSE ArgsLoop(PushArg(c1, ni_string_realloc(c1.m, c1.vector,
                                                    (c1.argc + 1) * PtrSize, mv)),
                      line, mv)
      Last(r) == [c EXCEPT !.m = r.m, !.vector = r.ret]
      At(p) ==
        IF Ch(line, p) # 0
        THEN Add(TokenLoop(Start(IF c.current = NULL THEN ni_string_empty(c.m)
                                 ELSE [m |-> c.m, s |-> c.current], p),
                           line, FALSE, FALSE, mv))
        ELSE IF c.vector = NULL THEN Last(ni_string_malloc(c.m, PtrSize))
        ELSE c
  IN At(SkipBlanks(line, c.p))

\* err: the tokens, the vector and current are released, *argc = 0
ArgsErr(c) ==
  LET Cur(m) == IF c.current # NULL THEN ni_string_ptr_free(m, c.current) ELSE m
  IN [m |-> Cur(ni_string_ptr_free(FreeTokens(c.m, c.vector, c.argc), c.vector)),
      tokens |-> NULL, count |-> 0]

\* Returns [m, tokens, count]
ni_string_split_args(m, line, mv) ==
  LET Out(c) ==
        IF c.err THEN ArgsErr(c)
        ELSE [m |-> c.m, tokens |-> c.vector, count |-> c.argc]
  IN Out(ArgsLoop([m |-> m, current |-> NULL, vector |-> NULL, argc |-> 0,
                   p |-> 1, err |-> FALSE], line, mv))

\* ---------------------------------------------------------------- cat_repr
RECURSIVE strlen(_)
\* the number of bytes of q before its first zero byte
strlen(q) == IF q = <<>> THEN 0 ELSE IF q[1] = 0 THEN 0 ELSE 1 + strlen(Tail(q))

HexChar(d) == IF d < 10 THEN 48 + d ELSE 87 + d

RECURSIVE vsnprintf(_, _)
\* what vsnprintf writes for the formats of ni_string_cat_repr, whose only
\* conversions are %c and %02x of the one argument c
vsnprintf(fmt, c) ==
  IF fmt = <<>> THEN <<>>
  ELSE IF Len(fmt) >= 2 /\ fmt[1] = 37 /\ fmt[2] = 99
  THEN <<c>> \o vsnprintf(SubSeq(fmt, 3, Len(fmt)), c)
  ELSE IF Len(fmt) >= 4 /\ SubSeq(fmt, 1, 4) = <<37, 48, 50, 120>>
  THEN <<HexChar(c \div 16), HexChar(c % 16)>> \o vsnprintf(SubSeq(fmt, 5, Len(fmt)), c)
  ELSE <<fmt[1]>> \o vsnprintf(Tail(fmt), c)

\* t is a C string in the caller's memory: its bytes, a zero byte after them
ni_string_cat(m, s, t, mv) ==
  ni_string_cat_len(m, s, RFromSeq(SubSeq(t, 1, strlen(t))), strlen(t), mv)

\* strlen(fmt) * 2 <= sizeof(staticbuf) for the formats used here and the
\* output fits: buf is the static buffer, no allocation is made
ni_string_cat_vprintf(m, s, fmt, c, mv) == ni_string_cat(m, s, vsnprintf(fmt, c), mv)
ni_string_cat_printf(m, s, fmt, c, mv) == ni_string_cat_vprintf(m, s, fmt, c, mv)

\* isprint((char)c) in the "C" locale; a byte >= 128 is a negative char,
\* outside the domain of isprint: hi is what the C library answers for it
isprint(c, hi) == IF c >= 128 THEN hi ELSE c >= 32 /\ c <= 126

\* the loop of ni_string_cat_repr without the escape of '\\' and '"'
RECURSIVE ReprLoopPlain(_, _, _, _, _, _)
ReprLoopPlain(r, p, j, len, hi, mv) ==
  IF r.m.ub \/ j > len THEN r
  ELSE ReprLoopPlain(
         IF p[j] \in {10, 13, 9, 7, 8}
         THEN ni_string_cat_len(r.m, r.s,
                RFromSeq(<<92, CASE p[j] = 10 -> 110 [] p[j] = 13 -> 114
                                 [] p[j] = 9 -> 116 [] p[j] = 7 -> 97
                                 [] OTHER -> 98>>), 2, mv)
         ELSE ni_string_cat_printf(r.m, r.s,
                IF isprint(p[j], hi) THEN <<37, 99>>
                ELSE <<92, 120, 37, 48, 50, 120>>,
                p[j], mv),
         p, j + 1, len, hi, mv)

\* while (len--) { switch (*p) ... p++; }: r = [m, s], *p is p[j]
RECURSIVE ReprLoop(_, _, _, _, _, _)
ReprLoop(r, p, j, len, hi, mv) ==
  IF r.m.ub \/ j > len THEN r
  ELSE ReprLoop(
         IF p[j] \in {10, 13, 9, 7, 8}
         THEN ni_string_cat_len(r.m, r.s,
                RFromSeq(<<92, CASE p[j] = 10 -> 110 [] p[j] = 13 -> 114
                                 [] p[j] = 9 -> 116 [] p[j] = 7 -> 97
                                 [] OTHER -> 98>>), 2, mv)
         ELSE ni_string_cat_printf(r.m, r.s,
                IF p[j] \in {92, 34} THEN <<92, 37, 99>>
                ELSE IF isprint(p[j], hi) THEN <<37, 99>>
                ELSE <<92, 120, 37, 48, 50, 120>>,
                p[j], mv),
         p, j + 1, len, hi, mv)

ni_string_cat_repr(m, s, p, len, hi, mv) ==
  LET Close(r) == ni_string_cat_len(r.m, r.s, RFill(34, 1), 1, mv)
  IN Close(ReprLoop(ni_string_cat_len(m, s, RFill(34, 1), 1, mv), p, 1, len, hi, mv))

\* ------------------------------------------------------------ state machine
VARIABLES
  heap,    \* the live allocations
  x,       \* the caller's string handle (NULL: none)
  op,      \* the last call: its name, arguments and allocator calls
  status,  \* "ok" | "abort" (an assertion failed) | "ub" (undefined behaviour)
  nops,    \* number of calls made
  tokens,  \* the caller's token vector of a split (NULL: none)
  count    \* the number of tokens in it

\* the allocator's accounting (ni_malloc.c) and the C library heap under it
VARIABLES
  used_memory,            \* static size_t used_memory, four 16-bit limbs
  used_memory_mutex,      \* the thread holding used_memory_mutex (0: none)
  ni_malloc_oom_handler,  \* "default" (aborts) | "hook" (returns)
  blocks,                 \* block -> [size: malloc_usable_size, owner: thread]
  threads,                \* thread -> its position in the call it is making
  ncalls,                 \* number of allocator calls started
  overlapped              \* a call started while another thread was in one

\* the lists of ni_list.c
VARIABLES
  lists,    \* list -> [live, head, tail, len, dup, free]
  nodes,    \* node -> [live, prev, next, value]
  values,   \* value -> "none" | "live" | "freed"
  lop,      \* the last list call and what it returned
  lstatus,  \* "ok" | "ub" (a freed value was freed again)
  nlops     \* number of list calls made

strvars == <<heap, x, op, status, nops, tokens, count>>
memvars ==
  <<used_memory, used_memory_mutex, ni_malloc_oom_handler, blocks, threads,
    ncalls, overlapped>>
listvars == <<lists, nodes, values, lop, lstatus, nlops>>
vars == <<strvars, memvars, listvars>>

\* ------------------------------------------------------------------- inputs
Bytes(q) == [kind |-> "bytes", data |-> RFromSeq(q)]
FillOf(b, n) == [kind |-> "bytes", data |-> RFill(b, n)]
Foobar == <<102, 111, 111, 98, 97, 114>>
Bin == <<97, 0, 98>>

\* (init, initlen) pairs handed to ni_string_new_len
NewArgs ==
  { <<Bytes(<<>>), 0>>, <<Bytes(Foobar), 5>>, <<Bytes(Bin), 3>>,
    <<FillOf(120, 32), 32>>, <<FillOf(121, 300), 300>>,
    <<FillOf(122, 65536), 65536>> }

\* The lengths around which the constructor changes the header variant, and
\* the sources handed to it with each: "a\0bzzz..." of n and of n + 2 bytes,
\* n zero bytes, NULL and NI_STRING_NOINIT.
Lens == {0, 1, 2, 31, 32, 33, 255, 256, 257, 65535, 65536, 65537, 1048576}
Pattern(n) == [kind |-> "bytes", data |-> RTake(RFromSeq(Bin) \o RFill(122, n), n)]
WideArgs ==
  UNION { { <<Pattern(n), n>>, <<Pattern(n + 2), n>>, <<FillOf(0, n), n>>,
            <<[kind |-> "null", data |-> <<>>], n>>,
            <<[kind |-> "noinit", data |-> <<>>], n>> } : n \in Lens }

\* source byte strings of cat_len / cpy_len
Texts == { RFromSeq(Bin), RFill(107, 33), RFill(122, 70000) }

AddLens == {0, 1, 200, 1048576}
GrowLens == {300}
IncrsOf(avail, len) == {-1, 0, 1, avail, avail + 1, 0 - len, 0 - len - 1}
Incrs(h, s) == IncrsOf(ni_string_avail(h, s), ni_string_len(h, s))
Csets == { <<97, 98>>, <<120>> }
Ranges == { <<1, -1>>, <<-2, 100>>, <<2, 1>> }

\* an ni_string argument for %S, living in the caller's own memory
ArgOf(r) == [k |-> "S", h |-> r.m.heap, s |-> r.s]
ArgS(q) ==
  ArgOf(ni_string_new_len([heap |-> <<>>, calls |-> <<>>, ub |-> FALSE, oom |-> 0],
                          Bytes(q), Len(q)))
ArgC(q) == [k |-> "s", bytes |-> q]
ArgN(v) == [k |-> "n", neg |-> v < 0, mag |-> <<0, 0, IF v < 0 THEN 0 - v ELSE v>>]
ArgLL(neg, mag) == [k |-> "n", neg |-> neg, mag |-> mag]

\* (fmt, args) pairs handed to ni_string_cat_fmt:
\*   "a%s%S%q" "Hi" "a\0b",   "%i%%%U" -12 4096,   "%"
Fmts ==
  { <<<<97, 37, 115, 37, 83, 37, 113>>, <<ArgC(<<72, 105>>), ArgS(Bin)>>>>,
    <<<<37, 105, 37, 37, 37, 85>>, <<ArgN(-12), ArgN(4096)>>>>,
    <<<<37>>, <<>>>> }

\* (s, sep) pairs handed to ni_string_split_len: the strings
\*   ""  "a"  "a,b"  ",a"  "a,"  "a,,b"  "a--b"  "a,b,c,d,e"  "ab,b,"  "--"
\*   "b,a"  "a\0b,a\0,\310,a"  "---"
\* split at  ","  "--"  "b,"
SplitTexts ==
  { <<>>, <<97>>, <<97, 44, 98>>, <<44, 97>>, <<97, 44>>, <<97, 44, 44, 98>>,
    <<97, 45, 45, 98>>, <<97, 44, 98, 44, 99, 44, 100, 44, 101>>,
    <<97, 98, 44, 98, 44>>, <<45, 45>>, <<98, 44, 97>>,
    <<97, 0, 98, 44, 97, 0, 44, 200, 44, 97>>, <<45, 45, 45>> }
Seps == { <<44>>, <<45, 45>>, <<98, 44>> }
SplitArgs == SplitTexts \X Seps

RECURSIVE Defined(_)
\* no byte of r is uninitialised
Defined(r) == IF r = <<>> THEN TRUE ELSE r[1].b # Undef /\ Defined(Tail(r))

\* --------------------------------------------------------------- observers
Type(h, s) == TypeOf(Rd(h, s - 1))
Content(h, s) == RdBytes(h, s, ni_string_len(h, s))

\* ------------------------------------------- the allocator's accounting
\* ni_malloc.c built with HAVE_MALLOC_SIZE (ni_malloc.h), so PREFIX_SIZE is 0
\* and ni_malloc_size is malloc_usable_size. A call is a sequence of steps of
\* its thread: the C library call, then each update of used_memory as lock,
\* load, store, unlock.
NThreads == 2
MaxBlocks == 3
MaxCalls == 3
Threads == 1..NThreads
Blocks == 1..MaxBlocks
ReqSizes == {1, 24}
\* malloc_usable_size is at least the size asked for
UsableSlack == 8
Usable(size) == {size, size + UsableSlack}

\* size_t, 64 bits, as <<l3, l2, l1, l0>> = l3 * W16^3 + ... + l0
W16 == 65536
SizeT(n) == <<0, 0, n \div W16, n % W16>>
SizeAdd(w, n) ==
  LET l0 == w[4] + (n % W16)
      l1 == w[3] + (n \div W16) + (l0 \div W16)
      l2 == w[2] + (l1 \div W16)
      l3 == w[1] + (l2 \div W16)
  IN <<l3 % W16, l2 % W16, l1 % W16, l0 % W16>>
SizeSub(w, n) ==
  LET Borrow(l) == IF l < 0 THEN 1 ELSE 0
      Low(l) == (l + W16) % W16
      l0 == w[4] - (n % W16)
      l1 == (w[3] - (n \div W16)) - Borrow(l0)
      l2 == w[2] - Borrow(l1)
      l3 == w[1] - Borrow(l2)
  IN <<Low(l3), Low(l2), Low(l1), Low(l0)>>

NoBlock == [size |-> 0, owner |-> 0]
Idle == [pc |-> "idle", upd |-> <<>>, tmp |-> SizeT(0), freeing |-> NULL]
Aborted == [u \in Threads |-> [threads[u] EXCEPT !.pc = "aborted"]]

InitMem ==
  /\ used_memory = SizeT(0)
  /\ used_memory_mutex = 0
  /\ ni_malloc_oom_handler = "default"
  /\ blocks = [b \in Blocks |-> NoBlock]
  /\ threads = [t \in Threads |-> Idle]
  /\ ncalls = 0
  /\ overlapped = FALSE

malloc_usable_size(ptr) == IF ptr = NULL THEN 0 ELSE blocks[ptr].size
FreeIds == {b \in Blocks : blocks[b].owner = 0}
Fresh == CHOOSE b \in FreeIds : \A c \in FreeIds : b <= c
Owned(t) == {b \in Blocks : blocks[b].owner = t}

\* atomicIncr / atomicDecr (used_memory, n), still to be run by the thread
Incr(n) == [decr |-> FALSE, n |-> n]
Decr(n) == [decr |-> TRUE, n |-> n]
\* the thread goes on to run the updates upd and then free(freeing)
Updating(t, upd, freeing) ==
  [threads EXCEPT ![t] =
     [pc |-> "lock", upd |-> upd, tmp |-> SizeT(0), freeing |-> freeing]]

CanCall(t) == threads[t].pc = "idle" /\ ncalls < MaxCalls
Called(t, th, bl) ==
  /\ threads' = th
  /\ blocks' = bl
  /\ ncalls' = ncalls + 1
  /\ overlapped' = (overlapped \/ \E u \in Threads \ {t} : threads[u].pc # "idle")
  /\ UNCHANGED <<used_memory, used_memory_mutex, ni_malloc_oom_handler>>
  /\ UNCHANGED <<strvars, listvars>>

\* void *ni_malloc(size): malloc fails (fail) or returns a block of usable
\* size u; the failure handler aborts or returns
MallocCall(t, size, fail, u) ==
  IF fail
  THEN IF ni_malloc_oom_handler = "default"
       THEN Called(t, Aborted, blocks)
       ELSE Called(t, Updating(t, <<Incr(malloc_usable_size(NULL))>>, NULL), blocks)
  ELSE /\ FreeIds # {}
       /\ Called(t, Updating(t, <<Incr(u)>>, NULL),
                 [blocks EXCEPT ![Fresh] = [size |-> u, owner |-> t]])

\* void *ni_realloc(ptr, size): realloc fails, resizes in place or moves (mv)
ReallocCall(t, ptr, size, fail, u, mv) ==
  IF ptr = NULL THEN MallocCall(t, size, fail, u)
  ELSE LET oldsize == malloc_usable_size(ptr) IN
    IF fail
    THEN IF ni_malloc_oom_handler = "default"
         THEN Called(t, Aborted, blocks)
         ELSE Called(t, Updating(t, <<Decr(oldsize), Incr(malloc_usable_size(NULL))>>, NULL),
                     blocks)
    ELSE /\ mv => FreeIds # {}
         /\ Called(t, Updating(t, <<Decr(oldsize), Incr(u)>>, NULL),
                   IF mv
                   THEN [blocks EXCEPT ![ptr] = NoBlock,
                                       ![Fresh] = [size |-> u, owner |-> t]]
                   ELSE [blocks EXCEPT ![ptr].size = u])

\* void ni_free(ptr)
FreeCall(t, ptr) ==
  IF ptr = NULL THEN Called(t, threads, blocks)
  ELSE Called(t, Updating(t, <<Decr(malloc_usable_size(ptr))>>, ptr), blocks)

\* pthread_mutex_lock(&used_memory_mutex) returns once no thread holds it
MutexNeverHeld(mutex) == TRUE
MutexFree(mutex) == mutex = 0

Step(t, th) ==
  /\ threads' = [threads EXCEPT ![t] = th]
  /\ UNCHANGED <<ni_malloc_oom_handler, ncalls, overlapped, strvars, listvars>>

pthread_mutex_lock(t) ==
  /\ threads[t].pc = "lock"
  /\ MutexFree(used_memory_mutex)
  /\ used_memory_mutex' = t
  /\ Step(t, [threads[t] EXCEPT !.pc = "load"])
  /\ UNCHANGED <<used_memory, blocks>>

\* used_memory += n and used_memory -= n: the read, then the write
LoadCounter(t) ==
  /\ threads[t].pc = "load"
  /\ Step(t, [threads[t] EXCEPT !.pc = "store", !.tmp = used_memory])
  /\ UNCHANGED <<used_memory, used_memory_mutex, blocks>>

StoreCounter(t) ==
  /\ threads[t].pc = "store"
  /\ used_memory' = LET a == Head(threads[t].upd)
                    IN IF a.decr THEN SizeSub(threads[t].tmp, a.n)
                       ELSE SizeAdd(threads[t].tmp, a.n)
  /\ Step(t, [threads[t] EXCEPT !.pc = "unlock", !.tmp = SizeT(0)])
  /\ UNCHANGED <<used_memory_mutex, blocks>>

pthread_mutex_unlock(t) ==
  /\ threads[t].pc = "unlock"
  /\ used_memory_mutex' = 0
  /\ LET rest == Tail(threads[t].upd)
     IN Step(t, [threads[t] EXCEPT
                   !.upd = rest,
                   !.pc = IF rest # <<>> THEN "lock"
                          ELSE IF threads[t].freeing # NULL THEN "free"
                          ELSE "idle"])
  /\ UNCHANGED <<used_memory, blocks>>

\* free(ptr), the last step of ni_free
FreeBlock(t) ==
  /\ threads[t].pc = "free"
  /\ blocks' = [blocks EXCEPT ![threads[t].freeing] = NoBlock]
  /\ Step(t, Idle)
  /\ UNCHANGED <<used_memory, used_memory_mutex>>

\* ni_malloc_set_oom_handler(hook) with a hook that returns
SetOomHandler ==
  /\ ni_malloc_oom_handler = "default"
  /\ \A t \in Threads : threads[t].pc = "idle"
  /\ ni_malloc_oom_handler' = "hook"
  /\ UNCHANGED <<used_memory, used_memory_mutex, blocks, threads, ncalls, overlapped>>
  /\ UNCHANGED <<strvars, listvars>>

\* size_t ni_malloc_used_memory(void), called while no thread is in a call
ni_malloc_used_memory == used_memory
RECURSIVE SumSizes(_)
SumSizes(bs) ==
  IF bs = {} THEN 0
  ELSE LET b == CHOOSE c \in bs : TRUE IN blocks[b].size + SumSizes(bs \ {b})
\* the accounted sizes of the blocks still live
LiveSize == SumSizes(Blocks \ FreeIds)
AllReturned == \A t \in Threads : threads[t].pc = "idle"

\* calls of several threads, every allocation succeeding
Malloc ==
  \E t \in Threads : CanCall(t) /\
    \E size \in ReqSizes : \E u \in Usable(size) : MallocCall(t, size, FALSE, u)
Realloc ==
  \E t \in Threads : CanCall(t) /\
    \E ptr \in Owned(t) \cup {NULL}, size \in ReqSizes, mv \in BOOLEAN :
      \E u \in Usable(size) : ReallocCall(t, ptr, size, FALSE, u, mv)
FreeMem == \E t \in Threads : CanCall(t) /\ \E ptr \in Owned(t) \cup {NULL} : FreeCall(t, ptr)
StatLock == \E t \in Threads : pthread_mutex_lock(t)
StatLoad == \E t \in Threads : LoadCounter(t)
StatStore == \E t \in Threads : StoreCounter(t)
StatUnlock == \E t \in Threads : pthread_mutex_unlock(t)
StatFree == \E t \in Threads : FreeBlock(t)

\* calls of one thread, allocations failing or not
MallocOom ==
  CanCall(1) /\ \E size \in ReqSizes, fail \in BOOLEAN :
    \E u \in Usable(size) : MallocCall(1, size, fail, u)
ReallocOom ==
  CanCall(1) /\
    \E ptr \in Owned(1) \cup {NULL}, size \in ReqSizes, fail \in BOOLEAN, mv \in BOOLEAN :
      \E u \in Usable(size) : ReallocCall(1, ptr, size, fail, u, mv)
FreeOne == CanCall(1) /\ \E ptr \in Owned(1) \cup {NULL} : FreeCall(1, ptr)

\* ------------------------------------------------------- the lists (ni_list.c)
\* A list machine L = [lists, nodes, values, ub, fails]: the list structures,
\* the nodes, the values the nodes point to, whether undefined behaviour
\* happened, and which attempt to allocate fails (0: none, 1: the next one).
\* ni_malloc returns NULL on failure (a failure hook that returns is set).
MaxLists == 3
MaxNodes == 5
MaxValues == 6
MaxListOps == 5
ListIds == 1..MaxLists
NodeIds == 1..MaxNodes
ValueIds == 1..MaxValues

NoList ==
  [live |-> FALSE, head |-> NULL, tail |-> NULL, len |-> 0,
   dup |-> FALSE, free |-> FALSE, match |-> FALSE]
NoNode == [live |-> FALSE, prev |-> NULL, next |-> NULL, value |-> NULL]
NoValue == [st |-> "none", data |-> 0]

Least(ids) == IF ids = {} THEN NULL ELSE CHOOSE i \in ids : \A j \in ids : i <= j
\* one attempt to allocate: it fails when L.fails = 1
Attempt(L) == [L EXCEPT !.fails = IF @ > 0 THEN @ - 1 ELSE 0]

\* ni_malloc(sizeof(ni_list_node)): a node with unset fields, or NULL
NodeMalloc(L) ==
  LET id == Least({n \in NodeIds : ~ L.nodes[n].live})
  IN IF L.fails = 1 \/ id = NULL THEN [L |-> Attempt(L), ret |-> NULL]
     ELSE [L |-> [Attempt(L) EXCEPT
                    !.nodes[id] = [live |-> TRUE, prev |-> Undef, next |-> Undef,
                                   value |-> Undef]],
           ret |-> id]

\* the free method of a list, ni_free in the tests
FreeValue(L, v) ==
  IF L.values[v].st = "live" THEN [L EXCEPT !.values[v].st = "freed"]
  ELSE [L EXCEPT !.ub = TRUE]
\* the dup method of a list: a new value with the same content, or NULL
DupValue(L, v) ==
  LET id == Least({w \in ValueIds : L.values[w].st = "none"})
  IN IF L.values[v].st # "live" THEN [L |-> [L EXCEPT !.ub = TRUE], ret |-> NULL]
     ELSE IF L.fails = 1 \/ id = NULL THEN [L |-> Attempt(L), ret |-> NULL]
     ELSE [L |-> [Attempt(L) EXCEPT
                    !.values[id] = [st |-> "live", data |-> L.values[v].data]],
           ret |-> id]

ni_list_create(L) ==
  LET id == Least({l \in ListIds : ~ L.lists[l].live})
  IN IF L.fails = 1 \/ id = NULL THEN [L |-> Attempt(L), ret |-> NULL]
     ELSE [L |-> [Attempt(L) EXCEPT !.lists[id] = [NoList EXCEPT !.live = TRUE]],
           ret |-> id]

RECURSIVE EmptyLoop(_, _, _, _)
\* while(len--) of ni_list_empty
EmptyLoop(L, lst, current, len) ==
  IF len = 0 THEN L
  ELSE LET next == L.nodes[current].next
           L1 == IF L.lists[lst].free THEN FreeValue(L, L.nodes[current].value) ELSE L
       IN EmptyLoop([L1 EXCEPT !.nodes[current] = NoNode], lst, next, len - 1)

ni_list_empty(L, lst) ==
  [EmptyLoop(L, lst, L.lists[lst].head, L.lists[lst].len) EXCEPT
     !.lists[lst].head = NULL, !.lists[lst].tail = NULL, !.lists[lst].len = 0]

ni_list_release(L, lst) == [ni_list_empty(L, lst) EXCEPT !.lists[lst] = NoList]

ni_list_add_node_head(L, lst, val) ==
  LET r == NodeMalloc(L)
      node == r.ret
      l == L.lists[lst]
  IN IF node = NULL THEN [L |-> r.L, ret |-> NULL]
     ELSE IF l.len = 0
     THEN [L |-> [r.L EXCEPT
                    !.lists[lst].head = node, !.lists[lst].tail = node,
                    !.nodes[node] = [live |-> TRUE, prev |-> NULL, next |-> NULL,
                                     value |-> val],
                    !.lists[lst].len = 1],
           ret |-> lst]
     ELSE [L |-> [r.L EXCEPT
                    !.nodes[node] = [live |-> TRUE, prev |-> NULL, next |-> l.head,
                                     value |-> val],
                    !.nodes[l.head].prev = node,
                    !.lists[lst].head = node,
                    !.lists[lst].len = l.len + 1],
           ret |-> lst]

ni_list_add_node_tail(L, lst, val) ==
  LET r == NodeMalloc(L)
      node == r.ret
      l == L.lists[lst]
  IN IF node = NULL THEN [L |-> r.L, ret |-> NULL]
     ELSE IF l.len = 0
     THEN [L |-> [r.L EXCEPT
                    !.lists[lst].head = node, !.lists[lst].tail = node,
                    !.nodes[node] = [live |-> TRUE, prev |-> NULL, next |-> NULL,
                                     value |-> val],
                    !.lists[lst].len = 1],
           ret |-> lst]
     ELSE [L |-> [r.L EXCEPT
                    !.nodes[node] = [live |-> TRUE, prev |-> l.tail, next |-> NULL,
                                     value |-> val],
                    !.nodes[l.tail].next = node,
                    !.lists[lst].tail = node,
                    !.lists[lst].len = l.len + 1],
           ret |-> lst]

ni_list_insert_node(L, lst, old_nd, val, after) ==
  LET r == NodeMalloc(L)
      node == r.ret
      old == L.nodes[old_nd]
      l == L.lists[lst]
      new == IF after
             THEN [live |-> TRUE, prev |-> old_nd, next |-> old.next, value |-> val]
             ELSE [live |-> TRUE, prev |-> old.prev, next |-> old_nd, value |-> val]
      L1 == [r.L EXCEPT
               !.nodes[node] = new,
               !.lists[lst].tail = IF after /\ l.tail = old_nd THEN node ELSE @,
               !.lists[lst].head = IF ~ after /\ l.head = old_nd THEN node ELSE @]
      L2 == IF new.prev # NULL THEN [L1 EXCEPT !.nodes[new.prev].next = node] ELSE L1
      L3 == IF new.next # NULL THEN [L2 EXCEPT !.nodes[new.next].prev = node] ELSE L2
  IN IF node = NULL THEN [L |-> r.L, ret |-> NULL]
     ELSE [L |-> [L3 EXCEPT !.lists[lst].len = @ + 1], ret |-> lst]

ni_list_del_node(L, lst, nd) ==
  LET n == L.nodes[nd]
      L1 == IF n.prev # NULL THEN [L EXCEPT !.nodes[n.prev].next = n.next]
            ELSE [L EXCEPT !.lists[lst].head = n.next]
      L2 == IF n.next # NULL THEN [L1 EXCEPT !.nodes[n.next].prev = n.prev]
            ELSE [L1 EXCEPT !.lists[lst].tail = n.prev]
      L3 == IF L.lists[lst].free THEN FreeValue(L2, n.value) ELSE L2
  IN [L3 EXCEPT !.nodes[nd] = NoNode, !.lists[lst].len = @ - 1]

ni_list_rotate_keep_prev(L, lst) ==
  LET l == L.lists[lst]
      tail == l.tail
      newtail == L.nodes[tail].prev
  IN IF l.len <= 1 THEN L
     ELSE [L EXCEPT
             !.lists[lst].tail = newtail,
             !.nodes[newtail].next = NULL,
             !.nodes[l.head].prev = tail,
             !.nodes[tail].next = l.head,
             !.lists[lst].head = tail]

ni_list_rotate(L, lst) ==
  LET l == L.lists[lst]
      tail == l.tail
      newtail == L.nodes[tail].prev
  IN IF l.len <= 1 THEN L
     ELSE [L EXCEPT
             !.lists[lst].tail = newtail,
             !.nodes[newtail].next = NULL,
             !.nodes[l.head].prev = tail,
             !.nodes[tail].prev = NULL,
             !.nodes[tail].next = l.head,
             !.lists[lst].head = tail]

ni_list_join(L, l, o) ==
  LET a == L.lists[l]
      b == L.lists[o]
      L1 == IF b.head # NULL THEN [L EXCEPT !.nodes[b.head].prev = a.tail] ELSE L
      L2 == IF a.tail # NULL THEN [L1 EXCEPT !.nodes[a.tail].next = b.head]
            ELSE [L1 EXCEPT !.lists[l].head = b.head]
      L3 == IF b.tail # NULL THEN [L2 EXCEPT !.lists[l].tail = b.tail] ELSE L2
  IN [L3 EXCEPT
        !.lists[l].len = a.len + b.len,
        !.lists[o].head = NULL, !.lists[o].tail = NULL, !.lists[o].len = 0]

RECURSIVE DupLoop(_, _, _)
\* while((node = ni_list_next(&iter)) != NULL) of ni_list_dup; node is
\* iter.next, the iterator running from the head
DupLoop(L, copy, node) ==
  IF node = NULL THEN [L |-> L, ret |-> copy]
  ELSE LET d == IF L.lists[copy].dup THEN DupValue(L, L.nodes[node].value)
                ELSE [L |-> L, ret |-> L.nodes[node].value]
           r == ni_list_add_node_tail(d.L, copy, d.ret)
       IN IF d.ret = NULL THEN [L |-> ni_list_release(d.L, copy), ret |-> NULL]
          ELSE IF r.ret = NULL THEN [L |-> ni_list_release(r.L, copy), ret |-> NULL]
          ELSE DupLoop(r.L, copy, L.nodes[node].next)

ni_list_dup(L, org) ==
  LET c == ni_list_create(L)
      copy == c.ret
  IN IF copy = NULL THEN [L |-> c.L, ret |-> NULL]
     ELSE DupLoop([c.L EXCEPT !.lists[copy].dup = L.lists[org].dup,
                              !.lists[copy].free = L.lists[org].free,
                              !.lists[copy].match = L.lists[org].match],
                  copy, L.lists[org].head)

\* two lists made by ni_list_create, no method set
InitList ==
  /\ lists = [l \in ListIds |-> IF l <= 2 THEN [NoList EXCEPT !.live = TRUE] ELSE NoList]
  /\ nodes = [n \in NodeIds |-> NoNode]
  /\ values = [v \in ValueIds |-> NoValue]
  /\ lop = [name |-> "none", args |-> <<>>, ret |-> NULL]
  /\ lstatus = "ok"
  /\ nlops = 0

\* the nodes of a list from its head by next (fwd) or from its tail by prev,
\* at most MaxNodes + 1 of them
RECURSIVE Walk(_, _, _, _)
Walk(ns, n, k, fwd) ==
  IF n = NULL \/ k = 0 THEN <<>>
  ELSE <<n>> \o Walk(ns, IF fwd THEN ns[n].next ELSE ns[n].prev, k - 1, fwd)
Forward(ls, ns, l) == Walk(ns, ls[l].head, MaxNodes + 1, TRUE)
Backward(ls, ns, l) == Walk(ns, ls[l].tail, MaxNodes + 1, FALSE)
NodesOf(l) == {Forward(lists, nodes, l)[i] : i \in 1..Len(Forward(lists, nodes, l))}
LiveLists == {l \in ListIds : lists[l].live}

L0(fails) ==
  [lists |-> lists, nodes |-> nodes, values |-> values, ub |-> FALSE, fails |-> fails]
ListReady == lstatus = "ok" /\ nlops < MaxListOps

\* the call `name` returned r = [L, ret]
ListDone(name, args, r) ==
  /\ lists' = r.L.lists
  /\ nodes' = r.L.nodes
  /\ values' = r.L.values
  /\ lop' = [name |-> name, args |-> args, ret |-> r.ret]
  /\ lstatus' = IF r.L.ub THEN "ub" ELSE "ok"
  /\ nlops' = nlops + 1
  /\ UNCHANGED <<strvars, memvars>>

\* the caller's new value: it holds the number of the call; the caller
\* frees it again when the list did not take it
NewValue == Least({v \in ValueIds : values[v].st = "none"})
WithValue(fails) ==
  [L0(fails) EXCEPT !.values[NewValue] = [st |-> "live", data |-> nlops + 1]]
Taken(r) == IF r.ret = NULL THEN [r EXCEPT !.L.values[NewValue] = NoValue] ELSE r

AddNodeHead ==
  /\ ListReady /\ NewValue # NULL
  /\ \E l \in LiveLists, fails \in {0, 1} :
       ListDone("add_node_head", <<l, NewValue>>,
                Taken(ni_list_add_node_head(WithValue(fails), l, NewValue)))

AddNodeTail ==
  /\ ListReady /\ NewValue # NULL
  /\ \E l \in LiveLists, fails \in {0, 1} :
       ListDone("add_node_tail", <<l, NewValue>>,
                Taken(ni_list_add_node_tail(WithValue(fails), l, NewValue)))

InsertNode ==
  /\ ListReady /\ NewValue # NULL
  /\ \E l \in LiveLists, after \in BOOLEAN, fails \in {0, 1} :
       \E old_nd \in NodesOf(l) :
         ListDone("insert_node", <<l, old_nd, NewValue, after>>,
                  Taken(ni_list_insert_node(WithValue(fails), l, old_nd, NewValue, after)))

DelNode ==
  /\ ListReady
  /\ \E l \in LiveLists : \E nd \in NodesOf(l) :
       ListDone("del_node", <<l, nd>>,
                [L |-> ni_list_del_node(L0(0), l, nd), ret |-> NULL])

Rotate ==
  /\ ListReady
  /\ \E l \in LiveLists :
       ListDone("rotate", <<l>>, [L |-> ni_list_rotate(L0(0), l), ret |-> NULL])

JoinLists ==
  /\ ListReady
  /\ \E l \in LiveLists, o \in LiveLists :
       /\ l # o
       /\ ListDone("join", <<l, o>>, [L |-> ni_list_join(L0(0), l, o), ret |-> NULL])

DupFails == 4
Dup ==
  /\ ListReady
  /\ \E org \in LiveLists, fails \in 0..DupFails :
       ListDone("dup", <<org, fails>>, ni_list_dup(L0(fails), org))

\* lst->free = ni_free and lst->dup = a copying function
SetMethod(l, ls) ==
  /\ lists[l].live
  /\ lists' = ls
  /\ UNCHANGED <<nodes, values, lop, lstatus, nlops, strvars, memvars>>
SetFreeMethod ==
  \E l \in ListIds : ~ lists[l].free /\ SetMethod(l, [lists EXCEPT ![l].free = TRUE])
SetDupMethod ==
  \E l \in ListIds : ~ lists[l].dup /\ SetMethod(l, [lists EXCEPT ![l].dup = TRUE])

\* ------------------------------------------------------------------ actions
M0 == [heap |-> heap, calls |-> <<>>, ub |-> FALSE, oom |-> 0]
Ready == status = "ok" /\ nops < MaxOps

\* the call `name` returned r = [m, s]; ok tells whether its assertions held
Done(name, args, r, ok) ==
  /\ heap' = r.m.heap
  /\ x' = r.s
  /\ op' = [name |-> name, args |-> args, calls |-> r.m.calls]
  /\ status' = IF r.m.ub THEN "ub" ELSE IF ok THEN "ok" ELSE "abort"
  /\ nops' = nops + 1
  /\ UNCHANGED <<tokens, count, memvars, listvars>>
DoneOk(name, args, r) == Done(name, args, r, r.ok)

Init ==
  /\ heap = <<>>
  /\ x = NULL
  /\ op = [name |-> "none", args |-> <<>>, calls |-> <<>>]
  /\ status = "ok"
  /\ nops = 0
  /\ tokens = NULL
  /\ count = 0
  /\ InitMem
  /\ InitList

New ==
  /\ Ready /\ x = NULL /\ HasFree(heap, 1)
  /\ \E a \in NewArgs :
       Done("new_len", a, ni_string_new_len(M0, a[1], a[2]), TRUE)

Free ==
  /\ Ready /\ x # NULL
  /\ Done("free", <<x>>, [m |-> ni_string_free(M0, x), s |-> NULL], TRUE)

Clear ==
  /\ Ready /\ x # NULL
  /\ Done("clear", <<>>, ni_string_clear(M0, x), TRUE)

MakeRoomFor ==
  /\ Ready /\ x # NULL /\ HasFree(heap, 1)
  /\ \E addlen \in AddLens, mv \in BOOLEAN :
       Done("make_room_for", <<addlen>>,
            ni_string_make_room_for(M0, x, addlen, mv), TRUE)

RemoveFreeSpace ==
  /\ Ready /\ x # NULL /\ HasFree(heap, 1)
  /\ \E mv \in BOOLEAN :
       Done("remove_free_space", <<>>, ni_string_remove_free_space(M0, x, mv), TRUE)

IncrLen ==
  /\ Ready /\ x # NULL
  /\ \E incr \in Incrs(heap, x) :
       DoneOk("incr_len", <<incr>>, ni_string_incr_len(M0, x, incr))

GrowZero ==
  /\ Ready /\ x # NULL /\ HasFree(heap, 1)
  /\ \E len \in GrowLens, mv \in BOOLEAN :
       Done("grow_zero", <<len>>, ni_string_grow_zero(M0, x, len, mv), TRUE)

CatLen ==
  /\ Ready /\ x # NULL /\ HasFree(heap, 1)
  /\ \E t \in Texts, mv \in BOOLEAN :
       Done("cat_len", <<t, RLen(t)>>, ni_string_cat_len(M0, x, t, RLen(t), mv), TRUE)

CpyLen ==
  /\ Ready /\ x # NULL /\ HasFree(heap, 1)
  /\ \E t \in Texts, mv \in BOOLEAN :
       Done("cpy_len", <<t, RLen(t)>>, ni_string_cpy_len(M0, x, t, RLen(t), mv), TRUE)

Trim ==
  /\ Ready /\ x # NULL
  /\ Defined(Content(heap, x))
  /\ \E cset \in Csets :
       Done("trim", <<cset>>, ni_string_trim(M0, x, cset), TRUE)

Range ==
  /\ Ready /\ x # NULL
  /\ \E a \in Ranges :
       Done("range", a, ni_string_range(M0, x, a[1], a[2]), TRUE)

CatFmt ==
  /\ Ready /\ x # NULL /\ HasFree(heap, 1)
  /\ \E a \in Fmts, mv \in BOOLEAN :
       DoneOk("cat_fmt", <<a[1]>>, ni_string_cat_fmt(M0, x, a[1], a[2], mv))

Next ==
  \/ New
  \/ Free
  \/ Clear
  \/ MakeRoomFor
  \/ RemoveFreeSpace
  \/ IncrLen
  \/ GrowZero
  \/ CatLen
  \/ CpyLen
  \/ Trim
  \/ Range
  \/ CatFmt

Spec == Init /\ [][Next]_vars

\* ------------------------------------------------ sub-ranges on their own
\* (start, end) pairs handed to ni_string_range on a buffer of length len:
\* around both ends of the buffer, counted from the front and from the back
RangeEnds(len) == {0 - len - 1, 0 - len, -1, 0, 1, len - 1, len}
RangeArgs(len) == RangeEnds(len) \X RangeEnds(len)

RangeAny ==
  /\ Ready /\ x # NULL
  /\ \E a \in RangeArgs(ni_string_len(heap, x)) :
       Done("range", a, ni_string_range(M0, x, a[1], a[2]), TRUE)

NextRange ==
  \/ New
  \/ RangeAny

SpecRange == Init /\ [][NextRange]_vars

\* --------------------------------------------------- formatting on its own
\* (fmt, args) pairs handed to ni_string_cat_fmt:
\*   "a%s%S%q" "Hi" "a\0b"      "%i%%%U" -12 4096       "%"      ""
\*   "%I" LLONG_MIN             "%I,%U" LLONG_MAX ULLONG_MAX
\*   "%u%i" 0 INT_MIN           "%s|%S" "" ""           "x%"     "%!%%"
\*   "%s" "ABCDEFGHIJKL"
WideFmts ==
  Fmts \cup
  { <<<<>>, <<>>>>,
    <<<<37, 73>>, <<ArgLL(TRUE, LLONG_MIN_MAG)>>>>,
    <<<<37, 73, 44, 37, 85>>,
      <<ArgLL(FALSE, <<9, 223372036, 854775807>>),
        ArgLL(FALSE, <<18, 446744073, 709551615>>)>>>>,
    <<<<37, 117, 37, 105>>, <<ArgN(0), ArgLL(TRUE, <<0, 2, 147483648>>)>>>>,
    <<<<37, 115, 124, 37, 83>>, <<ArgC(<<>>), ArgS(<<>>)>>>>,
    <<<<120, 37>>, <<>>>>,
    <<<<37, 33, 37, 37>>, <<>>>>,
    <<<<37, 115>>, <<ArgC([j \in 1..12 |-> 64 + j])>>>> }

CatFmtWide ==
  /\ Ready /\ x # NULL /\ HasFree(heap, 1)
  /\ \E a \in WideFmts, mv \in BOOLEAN :
       DoneOk("cat_fmt", a, ni_string_cat_fmt(M0, x, a[1], a[2], mv))

NextFmt ==
  \/ New
  \/ MakeRoomFor
  \/ CatFmtWide

SpecFmt == Init /\ [][NextFmt]_vars

\* ------------------------------------------------- allocation failure
\* The program has set a hook with ni_malloc_set_oom_handler that returns, and
\* the k-th allocator call of the operation fails.
Oom(k) == [M0 EXCEPT !.oom = k]

\* (init, initlen) pairs for the failing constructor: bytes, NULL and
\* NI_STRING_NOINIT
OomNewArgs ==
  NewArgs \cup { <<[kind |-> "null", data |-> <<>>], 0>>,
                 <<[kind |-> "null", data |-> <<>>], 40>>,
                 <<[kind |-> "noinit", data |-> <<>>], 5>> }

NewOom ==
  /\ Ready /\ x = NULL /\ HasFree(heap, 1)
  /\ \E a \in OomNewArgs, k \in 1..OomCalls :
       Done("new_len", a, ni_string_new_len(Oom(k), a[1], a[2]), TRUE)

MakeRoomForOom ==
  /\ Ready /\ x # NULL /\ HasFree(heap, 1)
  /\ \E addlen \in AddLens, mv \in BOOLEAN, k \in 1..OomCalls :
       Done("make_room_for", <<addlen>>,
            ni_string_make_room_for(Oom(k), x, addlen, mv), TRUE)

CatLenOom ==
  /\ Ready /\ x # NULL /\ HasFree(heap, 1)
  /\ \E t \in Texts, mv \in BOOLEAN, k \in 1..OomCalls :
       Done("cat_len", <<t, RLen(t)>>,
            ni_string_cat_len(Oom(k), x, t, RLen(t), mv), TRUE)

CatFmtOom ==
  /\ Ready /\ x # NULL /\ HasFree(heap, 1)
  /\ \E a \in Fmts, mv \in BOOLEAN, k \in 1..OomCalls :
       DoneOk("cat_fmt", <<a[1]>>, ni_string_cat_fmt(Oom(k), x, a[1], a[2], mv))

NextOom ==
  \/ New
  \/ MakeRoomFor
  \/ NewOom
  \/ MakeRoomForOom
  \/ CatLenOom
  \/ CatFmtOom

SpecOom == Init /\ [][NextOom]_vars

\* ------------------------------------------ the constructor on its own
NewWide ==
  /\ Ready /\ x = NULL /\ HasFree(heap, 1)
  /\ \E a \in WideArgs :
       Done("new_len", a, ni_string_new_len(M0, a[1], a[2]), TRUE)

NextNew ==
  \/ NewWide
  \/ Free

SpecNew == Init /\ [][NextNew]_vars

\* ------------------------------------------------- splitting into tokens
\* the call `name` on the token vector returned m and left (t, n) to the caller
DoneSplit(name, args, m, t, n) ==
  /\ heap' = m.heap
  /\ op' = [name |-> name, args |-> args, calls |-> m.calls]
  /\ status' = IF m.ub THEN "ub" ELSE "ok"
  /\ nops' = nops + 1
  /\ tokens' = t
  /\ count' = n
  /\ UNCHANGED <<x, memvars, listvars>>
SplitResult(a, r) == DoneSplit("split_len", a, r.m, r.tokens, r.count)

SplitLen ==
  /\ Ready /\ tokens = NULL /\ heap = <<>>
  /\ \E a \in SplitArgs, mv \in BOOLEAN :
       SplitResult(a, ni_string_split_len(M0, a[1], Len(a[1]), a[2], Len(a[2]), mv))

FreeSplitRes ==
  /\ Ready /\ tokens # NULL
  /\ DoneSplit("free_split_res", <<tokens, count>>,
               ni_string_free_split_res(M0, tokens, count), NULL, 0)

\* the caller releases the last token itself: ni_string_free(tokens[--count])
FreeToken ==
  /\ Ready /\ tokens # NULL /\ count > 0
  /\ DoneSplit("free", <<TokenAt(heap, tokens, count - 1)>>,
               ni_string_free(M0, TokenAt(heap, tokens, count - 1)),
               tokens, count - 1)

NextSplit ==
  \/ SplitLen
  \/ FreeSplitRes
  \/ FreeToken

SpecSplit == Init /\ [][NextSplit]_vars

\* ------------------------------------------------- comparing two tokens
\* int r = ni_string_cmp(tokens[i], tokens[j]) on the tokens of a split
CmpResult(i, j, r) ==
  /\ op' = [name |-> "cmp", args |-> <<i, j>>, calls |-> <<>>, ret |-> r]
  /\ nops' = nops + 1
  /\ UNCHANGED <<heap, x, status, tokens, count, memvars, listvars>>

Cmp ==
  /\ Ready /\ tokens # NULL
  /\ \E i \in 0..count - 1, j \in 0..count - 1 :
       CmpResult(i, j, ni_string_cmp(heap, TokenAt(heap, tokens, i),
                                     TokenAt(heap, tokens, j)))

NextCmp ==
  \/ SplitLen
  \/ Cmp

SpecCmp == Init /\ [][NextCmp]_vars

\* ----------------------------------------------- joining and splitting again
\* lists of parts handed to ni_string_join_ni_string:
\*   ()  ("")  ("a")  ("a" "b")  ("" "a" "")  ("a-" "b")  ("a,b")
\*   ("a" "" "b")  ("a\0" "b")  ("ab" "c" "d" "e" "f")  ("b" ",")
PartLists ==
  { <<>>, <<<<>>>>, <<<<97>>>>, <<<<97>>, <<98>>>>, <<<<>>, <<97>>, <<>>>>,
    <<<<97, 45>>, <<98>>>>, <<<<97, 44, 98>>>>, <<<<97>>, <<>>, <<98>>>>,
    <<<<97, 0>>, <<98>>>>,
    <<<<97, 98>>, <<99>>, <<100>>, <<101>>, <<102>>>>,
    <<<<98>>, <<44>>>> }
Argv(parts) == [j \in 1..Len(parts) |-> ArgS(parts[j])]

Join ==
  /\ Ready /\ x = NULL
  /\ \E parts \in PartLists, sep \in Seps, mv \in BOOLEAN :
       Done("join", <<parts, sep>>,
            ni_string_join_ni_string(M0, Argv(parts), sep, Len(sep), mv), TRUE)

\* tokens = ni_string_split_len(x, ni_string_len(x), sep, seplen, &count)
\* on the buffer that a join has just built with the same separator
SplitBytes(line, sep, mv) ==
  ni_string_split_len(M0, line, Len(line), sep, Len(sep), mv)
JoinedResult(r) == DoneSplit("split_joined", op.args, r.m, r.tokens, r.count)

SplitJoined ==
  /\ Ready /\ x # NULL /\ tokens = NULL /\ op.name = "join"
  /\ \E mv \in BOOLEAN :
       JoinedResult(SplitBytes(RToSeq(Content(heap, x)), op.args[2], mv))

NextJoin ==
  \/ Join
  \/ SplitJoined
  \/ FreeSplitRes

SpecJoin == Init /\ [][NextJoin]_vars

\* ------------------------------------------ quoting and splitting arguments
\* byte strings handed to ni_string_cat_repr:
\*   ""  "a"  "\0"  "\""  "\\"  "\n"  " "  "\\x41"  "\377"  "'"  "\v"  "a\0b"
\*   "\a\n\0foo\r"
ReprTexts ==
  { <<>>, <<97>>, <<0>>, <<34>>, <<92>>, <<10>>, <<32>>, <<92, 120, 52, 49>>,
    <<255>>, <<39>>, <<11>>, <<97, 0, 98>>, <<7, 10, 0, 102, 111, 111, 13>> }

\* lines handed to ni_string_split_args:
\*   ""  " "  "a"  "a b"  "\"a\""  "\"a"  "'a"  "\"a\"b"  "'a'b"  "a\"b\""
\*   "\"\\x41\\n\""  "'i\\'s'"  "\"a\" 'b' c"  " \t a\n"  "\"a\\"  "\"a\"\vb"
\*   "a'"  "a \"b"
ArgLines ==
  { <<>>, <<32>>, <<97>>, <<97, 32, 98>>, <<34, 97, 34>>, <<34, 97>>, <<39, 97>>,
    <<34, 97, 34, 98>>, <<39, 97, 39, 98>>, <<97, 34, 98, 34>>,
    <<34, 92, 120, 52, 49, 92, 110, 34>>, <<39, 105, 92, 39, 115, 39>>,
    <<34, 97, 34, 32, 39, 98, 39, 32, 99>>, <<32, 9, 32, 97, 10>>,
    <<34, 97, 92>>, <<34, 97, 34, 11, 98>>, <<97, 39>>, <<97, 32, 34, 98>> }

\* the C string that starts at s
CStr(h, s) ==
  LET Upto(q) == SubSeq(q, 1, strlen(q))
  IN Upto(RToSeq(RdBytes(h, s, ni_string_len(h, s) + 1)))

\* x = ni_string_cat_repr(ni_string_empty(), a, len(a))
ReprOf(a, r, hi, mv) ==
  Done("cat_repr", <<a>>, ni_string_cat_repr(r.m, r.s, a, Len(a), hi, mv), TRUE)
Repr ==
  /\ Ready /\ x = NULL /\ tokens = NULL
  /\ \E a \in ReprTexts, hi \in BOOLEAN, mv \in BOOLEAN :
       ReprOf(a, ni_string_empty(M0), hi, mv)

\* x = ni_string_cat_repr(ni_string_cat_len(x, " ", 1), b, len(b)) on the
\* quoted form of a
ReprMoreOf(b, r, hi, mv) ==
  Done("cat_repr_more", <<op.args[1], b>>,
       ni_string_cat_repr(r.m, r.s, b, Len(b), hi, mv), TRUE)
ReprMore ==
  /\ Ready /\ x # NULL /\ op.name = "cat_repr"
  /\ \E b \in ReprTexts, hi \in BOOLEAN, mv \in BOOLEAN :
       ReprMoreOf(b, ni_string_cat_len(M0, x, RFill(32, 1), 1, mv), hi, mv)

\* tokens = ni_string_split_args(line, &count), line being the caller's
\* buffer x when there is one
ArgsResult(line, r) ==
  DoneSplit("split_args", <<line, op.name, op.args>>, r.m, r.tokens, r.count)
SplitArgsOf(line, mv) == ArgsResult(line, ni_string_split_args(M0, line, mv))
SplitArgsLine ==
  /\ Ready /\ tokens = NULL /\ op.name # "split_args"
  /\ \E line \in (IF x = NULL THEN ArgLines ELSE {CStr(heap, x)}), mv \in BOOLEAN :
       SplitArgsOf(line, mv)

NextArgs ==
  \/ Repr
  \/ ReprMore
  \/ SplitArgsLine
  \/ FreeSplitRes

SpecArgs == Init /\ [][NextArgs]_vars

\* ------------------------------------- the splitter's documented NULL cases
\* (s, sep, k): an empty or a non-empty input, an empty or a non-empty
\* separator, and the allocator call that fails (0: none)
SplitEdgeArgs == SplitTexts \X (Seps \cup {<<>>}) \X (0..(OomCalls + 1))

SplitLenEdge ==
  /\ Ready /\ tokens = NULL /\ heap = <<>>
  /\ \E a \in SplitEdgeArgs, mv \in BOOLEAN :
       SplitResult(a, ni_string_split_len(Oom(a[3]), a[1], Len(a[1]),
                                          a[2], Len(a[2]), mv))

NextSplitEdge ==
  \/ SplitLenEdge
  \/ FreeSplitRes

SpecSplitEdge == Init /\ [][NextSplitEdge]_vars

\* ------------------------------------------- the allocator and the lists
NextMem ==
  \/ Malloc \/ Realloc \/ FreeMem
  \/ StatLock \/ StatLoad \/ StatStore \/ StatUnlock \/ StatFree
SpecMem == Init /\ [][NextMem]_vars

NextMemOom ==
  \/ SetOomHandler \/ MallocOom \/ ReallocOom \/ FreeOne
  \/ StatLock \/ StatLoad \/ StatStore \/ StatUnlock \/ StatFree
SpecMemOom == Init /\ [][NextMemOom]_vars

NextList ==
  \/ AddNodeHead \/ AddNodeTail \/ InsertNode \/ DelNode \/ Rotate \/ JoinLists
  \/ SetFreeMethod
SpecList == Init /\ [][NextList]_vars

NextDup == AddNodeTail \/ SetFreeMethod \/ SetDupMethod \/ Dup
SpecDup == Init /\ [][NextDup]_vars

\* ------------------------------------------------------------------ claims
\* the buffer before and after the step under consideration
LenBefore == ni_string_len(heap, x)
LenAfter == ni_string_len(heap', x')
AllocBefore == ni_string_alloc(heap, x)
AllocAfter == ni_string_alloc(heap', x')
\* a call named name has just returned without a failed assertion and without
\* undefined behaviour
Returned(name) == op'.name = name /\ nops' = nops + 1 /\ status' = "ok"

\* the narrowest header variant whose length field holds len
MinimalType(len) ==
  IF len < 32 THEN NI_STRING_TYPE_5
  ELSE IF len < 256 THEN NI_STRING_TYPE_8
  ELSE IF len < 65536 THEN NI_STRING_TYPE_16
  ELSE NI_STRING_TYPE_32

\* C1: after any sequence of constructor and mutating calls that returned
\* (no failed assertion, no undefined behaviour), the buffer has len <= alloc
\* and the byte at offset len is zero; for the Embedded-5 variant
\* ni_string_alloc is the length itself.
C1_LenAllocTerminator ==
  (status = "ok" /\ x # NULL) =>
    /\ ni_string_len(heap, x) <= ni_string_alloc(heap, x)
    /\ Rd(heap, x + ni_string_len(heap, x)) = 0

\* a third call, remove_free_space, has turned a wider buffer into Embedded-5
C1_Witness ==
  /\ status = "ok" /\ x # NULL /\ nops = 3
  /\ op.name = "remove_free_space" /\ op.calls # <<>>
  /\ Type(heap, x) = NI_STRING_TYPE_5
  /\ Rd(heap, x + ni_string_len(heap, x)) = 0

\* C2: every address a string operation hands to the allocator's free or
\* realloc is the start of a live allocation (the log marks such a call ok).
C2_FreesBlockStarts ==
  \A i \in 1..Len(op.calls) :
    op.calls[i].fn \in {"free", "realloc"} => op.calls[i].ok

\* C3: ni_string_new_len(b, n) with n <= len(b) yields a buffer of length n
\* whose bytes [0, n) are b[0, n) and whose byte at offset n is zero.
C3_NewLenRoundTrip ==
  (op.name = "new_len" /\ op.args[1].kind = "bytes") =>
    /\ ni_string_len(heap, x) = op.args[2]
    /\ RdBytes(heap, x, op.args[2]) = RTake(op.args[1].data, op.args[2])
    /\ Rd(heap, x + op.args[2]) = 0

\* a buffer of 65537 bytes made from a longer source with a zero byte inside
C3_Witness ==
  /\ op.name = "new_len" /\ op.args[1].kind = "bytes"
  /\ op.args[2] = 65537 /\ RLen(op.args[1].data) > op.args[2]
  /\ Rd(heap, x + 1) = 0 /\ Rd(heap, x + 65536) = 122
  /\ ni_string_len(heap, x) = 65537

\* C4: the constructor picks the variant from the length n alone: 8 for
\* n = 0, Embedded-5 for 0 < n < 32, 8 for 32 <= n < 2^8, 16 for n < 2^16,
\* 32 for the larger n (all of them below 2^31 here), and the new buffer has
\* no spare capacity: alloc = len.
C4_VariantByLength ==
  op.name = "new_len" =>
    /\ Type(heap, x) =
         (IF op.args[2] = 0 THEN NI_STRING_TYPE_8
          ELSE IF op.args[2] < 32 THEN NI_STRING_TYPE_5
          ELSE IF op.args[2] < 256 THEN NI_STRING_TYPE_8
          ELSE IF op.args[2] < 65536 THEN NI_STRING_TYPE_16
          ELSE NI_STRING_TYPE_32)
    /\ ni_string_alloc(heap, x) = ni_string_len(heap, x)
    /\ ni_string_avail(heap, x) = 0

\* the first length that needs the 16 bit variant, from a NULL source
C4_Witness ==
  /\ op.name = "new_len" /\ op.args[2] = 256 /\ op.args[1].kind = "null"
  /\ Type(heap, x) = NI_STRING_TYPE_16
  /\ ni_string_alloc(heap, x) = 256

\* C5: ni_string_make_room_for(s, addlen) returns a buffer with the same
\* length, the same bytes at offsets [0, len] and spare capacity >= addlen,
\* and is a no-op on the same handle, with no allocator call, when the spare
\* capacity was already >= addlen.
C5_MakeRoomFor ==
  [][ Returned("make_room_for") =>
        /\ LenAfter = LenBefore
        /\ RdBytes(heap', x', LenBefore + 1) = RdBytes(heap, x, LenBefore + 1)
        /\ ni_string_avail(heap', x') >= op'.args[1]
        /\ (ni_string_avail(heap, x) >= op'.args[1] =>
              x' = x /\ heap' = heap /\ op'.calls = <<>>) ]_vars

\* a 300 byte buffer of variant 16 has been moved to a block of variant 32
C5_Witness ==
  /\ op.name = "make_room_for" /\ status = "ok" /\ op.args[1] = 1048576
  /\ Len(op.calls) = 2
  /\ Type(heap, x) = NI_STRING_TYPE_32
  /\ ni_string_len(heap, x) = 300
  /\ ni_string_avail(heap, x) >= 1048576

\* C6: right after a ni_string_make_room_for(s, n), a ni_string_make_room_for
\* with m <= n makes no allocator call and returns the same handle over an
\* unchanged heap (so an unchanged header).
C6_GrowthIdempotent ==
  [][ (op.name = "make_room_for" /\ status = "ok" /\ Returned("make_room_for")
       /\ op'.args[1] <= op.args[1]) =>
        op'.calls = <<>> /\ x' = x /\ heap' = heap ]_vars

\* The third call is make_room_for(200) with no allocator call on the 300
\* byte buffer whose capacity is 1000: only make_room_for(200) as the second
\* call leaves that capacity.
C6_Witness ==
  /\ nops = 3 /\ status = "ok"
  /\ op.name = "make_room_for" /\ op.args[1] = 200 /\ op.calls = <<>>
  /\ ni_string_len(heap, x) = 300 /\ ni_string_alloc(heap, x) = 1000
  /\ RdBytes(heap, x, 300) = RFill(121, 300)

\* C7 as stated: after ni_string_remove_free_space on a buffer with spare
\* capacity the variant is the minimal one for the length.
C7_AlwaysMinimal ==
  [][ (Returned("remove_free_space") /\ ni_string_avail(heap, x) > 0) =>
        Type(heap', x') = MinimalType(LenBefore) ]_vars

\* C7, amended: the variant becomes the minimal one when that is Embedded-5
\* or 8; when the minimal one is 16 or wider the buffer keeps the variant it
\* had (the same or a wider one); the length and the content stay, and no
\* spare capacity is left.
C7_ShrinkVariant ==
  [][ (Returned("remove_free_space") /\ ni_string_avail(heap, x) > 0) =>
        /\ Type(heap', x') =
             (IF MinimalType(LenBefore) <= NI_STRING_TYPE_8
              THEN MinimalType(LenBefore) ELSE Type(heap, x))
        /\ Type(heap', x') >= MinimalType(LenBefore)
        /\ LenAfter = LenBefore
        /\ RdBytes(heap', x', LenBefore + 1) = RdBytes(heap, x, LenBefore + 1)
        /\ (Type(heap', x') # NI_STRING_TYPE_5 =>
              ni_string_avail(heap', x') = 0 /\ AllocAfter = LenBefore) ]_vars

\* a buffer of variant 32 whose length fits variant 16 has kept variant 32
C7_Witness ==
  /\ op.name = "remove_free_space" /\ status = "ok" /\ op.calls # <<>>
  /\ Type(heap, x) = NI_STRING_TYPE_32
  /\ ni_string_len(heap, x) < 65536 /\ ni_string_len(heap, x) >= 256
  /\ ni_string_avail(heap, x) = 0

\* C8: on a valid buffer of every variant ni_string_incr_len(s, d) passes its
\* assertion exactly when (d >= 0 and d <= spare capacity) or (d < 0 and
\* -d <= len), and then sets the length to len + d and writes a zero byte at
\* the new length.
C8_IncrLenContract ==
  [][ (op'.name = "incr_len" /\ nops' = nops + 1) =>
        /\ (status' # "abort") <=>
             \/ (op'.args[1] >= 0 /\ op'.args[1] <= ni_string_avail(heap, x))
             \/ (op'.args[1] < 0 /\ 0 - op'.args[1] <= LenBefore)
        /\ (status' = "ok" =>
              /\ LenAfter = LenBefore + op'.args[1]
              /\ Rd(heap', x' + LenAfter) = 0) ]_vars

\* C9: ni_string_cat_len(s, t, n), t not part of s, returns a buffer of
\* length len(s) + n holding the old bytes of s, then t[0, n), then a zero
\* byte.
C9_CatLen ==
  [][ Returned("cat_len") =>
        /\ LenAfter = LenBefore + op'.args[2]
        /\ RdBytes(heap', x', LenBefore + op'.args[2] + 1) =
             RNorm(RdBytes(heap, x, LenBefore) \o RTake(op'.args[1], op'.args[2])
                   \o RFill(0, 1)) ]_vars

\* "a\0b" has been appended to the Embedded-5 buffer "fooba", now variant 8
C9_Witness ==
  /\ nops = 2 /\ status = "ok" /\ op.name = "cat_len" /\ op.args[2] = 3
  /\ Type(heap, x) = NI_STRING_TYPE_8
  /\ RdBytes(heap, x, 9) = RFromSeq(<<102, 111, 111, 98, 97, 97, 0, 98, 0>>)
  /\ ni_string_len(heap, x) = 8

\* C10 as stated: ni_string_cpy_len(s, t, n) returns a buffer of length n
\* whose bytes [0, n) are t and whose capacity is not smaller than before.
C10_CapacityKept ==
  [][ Returned("cpy_len") =>
        /\ LenAfter = op'.args[2]
        /\ RdBytes(heap', x', op'.args[2]) = RTake(op'.args[1], op'.args[2])
        /\ AllocAfter >= AllocBefore ]_vars

\* C10, amended: the length is n, the bytes [0, n) are t and a zero byte
\* follows; the capacity is not smaller than before when the buffer has a
\* variant with a capacity field or has to grow, and an Embedded-5 buffer
\* that need not grow stays Embedded-5 with capacity n.
C10_CpyLen ==
  [][ Returned("cpy_len") =>
        /\ LenAfter = op'.args[2]
        /\ RdBytes(heap', x', op'.args[2] + 1) =
             RNorm(RTake(op'.args[1], op'.args[2]) \o RFill(0, 1))
        /\ (Type(heap, x) # NI_STRING_TYPE_5 \/ AllocBefore < op'.args[2] =>
              AllocAfter >= AllocBefore)
        /\ (Type(heap, x) = NI_STRING_TYPE_5 /\ AllocBefore >= op'.args[2] =>
              Type(heap', x') = NI_STRING_TYPE_5 /\ AllocAfter = op'.args[2]) ]_vars

\* "a\0b" has overwritten the Embedded-5 buffer "fooba" in place
C10_Witness ==
  /\ nops = 2 /\ status = "ok" /\ op.name = "cpy_len" /\ op.args[2] = 3
  /\ op.calls = <<>>
  /\ Type(heap, x) = NI_STRING_TYPE_5
  /\ ni_string_alloc(heap, x) = 3
  /\ RdBytes(heap, x, 4) = RFromSeq(<<97, 0, 98, 0>>)

\* the bytes of r without its longest prefix and its longest suffix of bytes
\* that occur in cset
RECURSIVE MembersAhead(_, _)
MembersAhead(r, cset) ==
  IF r = <<>> THEN 0
  ELSE IF \E k \in 1..Len(cset) : cset[k] = r[1].b
  THEN r[1].n + MembersAhead(Tail(r), cset)
  ELSE 0
Trimmed(r, cset) ==
  LET Inner(rest) == RTake(rest, RLen(rest) - MembersAhead(RRev(rest), cset))
  IN Inner(RDrop(r, MembersAhead(r, cset)))

\* C11: ni_string_trim leaves the content without its maximal leading and
\* trailing runs of bytes that are members of cset, moved to offset 0; a byte
\* that is not in cset (a zero byte included) stays.
C11_TrimExact ==
  [][ Returned("trim") =>
        /\ Content(heap', x') = Trimmed(Content(heap, x), op'.args[1])
        /\ Rd(heap', x' + LenAfter) = 0 ]_vars

\* the index i of ni_string_range on a buffer of length len, counted from the
\* front
FromFront(i, len) == IF i < 0 THEN len + i ELSE i

\* C12: on a buffer of length len > 0, with start >= -len and end >= -len,
\* ni_string_range leaves the bytes at the inclusive positions
\* [start', min(end', len - 1)] at offset 0, a negative index i standing for
\* len + i; the result is empty when start' > end' or start' >= len, and is
\* never longer than len.
C12_RangeInclusive ==
  [][ (Returned("range") /\ LenBefore > 0
       /\ op'.args[1] >= 0 - LenBefore /\ op'.args[2] >= 0 - LenBefore) =>
        LET from == FromFront(op'.args[1], LenBefore)
            to == FromFront(op'.args[2], LenBefore)
            last == IF to < LenBefore - 1 THEN to ELSE LenBefore - 1
        IN /\ Content(heap', x') =
                (IF from > to \/ from >= LenBefore THEN <<>>
                 ELSE RSub(Content(heap, x), from, (last - from) + 1))
           /\ LenAfter <= LenBefore
           /\ Rd(heap', x' + LenAfter) = 0 ]_vars

\* ni_string_range(s, 1, -1) has cut "ooba" out of "fooba", and a second
\* call with (-4, 1) has cut "oo" out of that
C12_Witness ==
  /\ nops = 3 /\ status = "ok" /\ op.name = "range" /\ op.args = <<-4, 1>>
  /\ Content(heap, x) = RFromSeq(<<111, 111>>)
  /\ Rd(heap, x + 2) = 0

\* C13: when end < -len the interval is empty: the result has length 0
\* whatever start is.
C13_EndBeforeFirst ==
  [][ (Returned("range") /\ LenBefore > 0 /\ op'.args[2] < 0 - LenBefore) =>
        LenAfter = 0 ]_vars

Sign(v) == IF v > 0 THEN 1 ELSE IF v < 0 THEN -1 ELSE 0
\* the two buffers of the last ni_string_cmp call
CmpLeft == TokenAt(heap, tokens, op.args[1])
CmpRight == TokenAt(heap, tokens, op.args[2])

\* C14: ni_string_cmp(a, a) = 0; the signs of cmp(a, b) and cmp(b, a) are
\* opposite; and a buffer compares greater than each of its proper prefixes,
\* zero bytes included.
C14_CmpOrder ==
  op.name = "cmp" =>
    /\ (op.args[1] = op.args[2] => op.ret = 0)
    /\ Sign(op.ret) = 0 - Sign(ni_string_cmp(heap, CmpRight, CmpLeft))
    /\ (/\ ni_string_len(heap, CmpLeft) > ni_string_len(heap, CmpRight)
        /\ RTake(Content(heap, CmpLeft), ni_string_len(heap, CmpRight))
             = Content(heap, CmpRight)
        => op.ret > 0)

\* "a\0b" has been compared with its prefix "a\0"
C14_Witness ==
  /\ op.name = "cmp" /\ op.ret > 0
  /\ Content(heap, CmpLeft) = RFromSeq(<<97, 0, 98>>)
  /\ Content(heap, CmpRight) = RFromSeq(<<97, 0>>)

\* The spans of s between the occurrences of sep found from left to right
\* without overlap, the span after the last occurrence included.
RECURSIVE Spans(_, _)
Spans(s, sep) ==
  LET at == { k \in 1..(Len(s) - Len(sep)) + 1 :
                SubSeq(s, k, (k + Len(sep)) - 1) = sep }
      Cut(k) == <<SubSeq(s, 1, k - 1)>> \o Spans(SubSeq(s, k + Len(sep), Len(s)), sep)
  IN IF at = {} THEN <<s>>
     ELSE Cut(CHOOSE k \in at : \A l \in at : k <= l)

\* the tokens of the caller's vector are the byte strings q[1], q[2], ...,
\* each followed by a zero byte
TokensAre(q) ==
  /\ count = Len(q)
  /\ tokens # NULL
  /\ \A i \in 1..Len(q) :
       /\ Content(heap, TokenAt(heap, tokens, i - 1)) = RFromSeq(q[i])
       /\ Rd(heap, TokenAt(heap, tokens, i - 1) + Len(q[i])) = 0

\* C15: for a non-empty input and a separator of length >= 1,
\* ni_string_split_len returns occurrences + 1 tokens: the spans between the
\* non-overlapping occurrences of the separator, in order, the (possibly
\* empty) span after the last one last; an empty input gives zero tokens.
C15_SplitTokens ==
  op.name = "split_len" =>
    IF op.args[1] = <<>> THEN count = 0
    ELSE TokensAre(Spans(op.args[1], op.args[2]))

\* "ab,b," split at "b," gives "a", "" and the empty trailing span
C15_Witness ==
  /\ op.name = "split_len" /\ op.args = <<<<97, 98, 44, 98, 44>>, <<98, 44>>>>
  /\ count = 3
  /\ ni_string_len(heap, TokenAt(heap, tokens, 0)) = 1
  /\ ni_string_len(heap, TokenAt(heap, tokens, 2)) = 0

\* sep occurs in the byte string q
Occurs(sep, q) ==
  \E k \in 1..(Len(q) - Len(sep)) + 1 : SubSeq(q, k, (k + Len(sep)) - 1) = sep
\* the only occurrence of sep in q followed by sep is the appended one
OnlyAtEnd(sep, q) ==
  \A k \in 1..Len(q) : SubSeq(q \o sep, k, (k + Len(sep)) - 1) # sep

\* C16 as stated: when no part contains the separator, splitting the join of
\* the parts at the separator gives the parts back: same count, same bytes,
\* same order.
C16_SplitOfJoin ==
  (op.name = "split_joined"
   /\ \A j \in 1..Len(op.args[1]) : ~Occurs(op.args[2], op.args[1][j])) =>
    TokensAre(op.args[1])

\* C16, amended: the parts come back when, in addition, the list is not the
\* single empty part and no occurrence of the separator begins inside a part
\* (the separator occurs in part ++ separator at its end only).
C16_SplitOfJoinApart ==
  (op.name = "split_joined"
   /\ op.args[1] # <<<<>>>>
   /\ \A j \in 1..Len(op.args[1]) : OnlyAtEnd(op.args[2], op.args[1][j])) =>
    TokensAre(op.args[1])

\* ("" "a" "") joined with "--" and split again is three tokens
C16_Witness ==
  /\ op.name = "split_joined" /\ op.args = <<<<<<>>, <<97>>, <<>>>>, <<45, 45>>>>
  /\ Content(heap, x) = RFromSeq(<<45, 45, 97, 45, 45>>)
  /\ count = 3
  /\ Content(heap, TokenAt(heap, tokens, 1)) = RFromSeq(<<97>>)

\* The line, read from position i in quoting mode q ("none", "double" or
\* "single"), leaves a quote unterminated or closes a quote right before a
\* byte that is not whitespace.
RECURSIVE Malformed(_, _, _)
Malformed(line, i, q) ==
  LET closes(quote) == i <= Len(line) /\ line[i] = quote
      glued == i < Len(line) /\ line[i + 1] \notin {9, 10, 11, 12, 13, 32}
  IN IF i > Len(line) THEN q # "none"
     ELSE IF q = "none"
     THEN Malformed(line, i + 1,
                    IF line[i] = 34 THEN "double"
                    ELSE IF line[i] = 39 THEN "single" ELSE "none")
     ELSE IF q = "double"
     THEN IF line[i] = 92 /\ i < Len(line)
          THEN Malformed(line,
                         IF /\ i + 3 <= Len(line) /\ line[i + 1] = 120
                            /\ is_hex_digit(line[i + 2]) /\ is_hex_digit(line[i + 3])
                         THEN i + 4 ELSE i + 2, "double")
          ELSE IF closes(34) THEN glued \/ Malformed(line, i + 1, "none")
          ELSE Malformed(line, i + 1, "double")
     ELSE IF line[i] = 92 /\ i < Len(line) /\ line[i + 1] = 39
          THEN Malformed(line, i + 2, "single")
          ELSE IF closes(39) THEN glued \/ Malformed(line, i + 1, "none")
          ELSE Malformed(line, i + 1, "single")

\* the line of the last ni_string_split_args call
ArgsLine == op.args[1]

\* C17: ni_string_split_args returns NULL with *argc = 0 exactly when the
\* line is malformed; for every other line, the empty and the whitespace-only
\* line included, it returns a non-null vector, with *argc = 0 when the line
\* has no token.
C17_NullIffMalformed ==
  op.name = "split_args" =>
    /\ status = "ok"
    /\ (tokens = NULL) = Malformed(ArgsLine, 1, "none")
    /\ (tokens = NULL => count = 0)
    /\ ((\A i \in 1..Len(ArgsLine) : isspace(ArgsLine[i])) =>
          tokens # NULL /\ count = 0)

\* C18: ni_string_split_args applied to cat_repr(a) ++ " " ++ cat_repr(b)
\* returns exactly two tokens, with the bytes and the lengths of a and b,
\* whatever bytes a and b hold.
C18_ReprRoundTrip ==
  (op.name = "split_args" /\ op.args[2] = "cat_repr_more") =>
    /\ status = "ok"
    /\ TokensAre(op.args[3])
    /\ ni_string_len(heap, TokenAt(heap, tokens, 0)) = Len(op.args[3][1])
    /\ ni_string_len(heap, TokenAt(heap, tokens, 1)) = Len(op.args[3][2])

\* "\"\\\\x41\" \"a\\x00b\"" has been split into "\\x41" and "a\0b"
C18_Witness ==
  /\ op.name = "split_args" /\ op.args[2] = "cat_repr_more" /\ status = "ok"
  /\ op.args[3] = <<<<92, 120, 52, 49>>, <<97, 0, 98>>>>
  /\ op.args[1] = <<34, 92, 92, 120, 52, 49, 34, 32, 34, 97, 92, 120, 48, 48, 98, 34>>
  /\ count = 2
  /\ Content(heap, TokenAt(heap, tokens, 1)) = RFromSeq(<<97, 0, 98>>)

\* the decimal digits of n, and its last nine digits
RECURSIVE Digits(_)
Digits(n) == IF n < 10 THEN <<48 + n>> ELSE Append(Digits(n \div 10), 48 + (n % 10))
Pad9(n) == [j \in 1..9 |-> 48 + ((n \div (10 ^ (9 - j))) % 10)]
DecimalOf(mag) ==
  IF mag[1] > 0 THEN Digits(mag[1]) \o Pad9(mag[2]) \o Pad9(mag[3])
  ELSE IF mag[2] > 0 THEN Digits(mag[2]) \o Pad9(mag[3])
  ELSE Digits(mag[3])

\* The reference rendering of fmt with the arguments args: literal bytes as
\* they are, %s and %S the argument's bytes, %i %I %u %U the decimal text of
\* the number, % and another byte that byte.
RECURSIVE Rendering(_, _)
Rendering(fmt, args) ==
  IF fmt = <<>> THEN <<>>
  ELSE IF fmt[1] # 37 THEN RFill(fmt[1], 1) \o Rendering(Tail(fmt), args)
  ELSE IF Len(fmt) = 1 THEN <<>>
  ELSE IF fmt[2] = 115
  THEN RFromSeq(args[1].bytes) \o Rendering(SubSeq(fmt, 3, Len(fmt)), Tail(args))
  ELSE IF fmt[2] = 83
  THEN Content(args[1].h, args[1].s) \o Rendering(SubSeq(fmt, 3, Len(fmt)), Tail(args))
  ELSE IF fmt[2] \in {105, 73}
  THEN RFromSeq((IF args[1].neg THEN <<45>> ELSE <<>>) \o DecimalOf(args[1].mag))
         \o Rendering(SubSeq(fmt, 3, Len(fmt)), Tail(args))
  ELSE IF fmt[2] \in {117, 85}
  THEN RFromSeq(DecimalOf(args[1].mag))
         \o Rendering(SubSeq(fmt, 3, Len(fmt)), Tail(args))
  ELSE RFill(fmt[2], 1) \o Rendering(SubSeq(fmt, 3, Len(fmt)), args)

\* C19: for every destination buffer and every format string,
\* ni_string_cat_fmt appends the reference rendering to the old content; the
\* final length is the old length plus the length of the rendering.
C19_CatFmtRendering ==
  [][ (op'.name = "cat_fmt" /\ nops' = nops + 1 /\ Len(op'.args) = 2) =>
        /\ status' = "ok"
        /\ Content(heap', x') =
             RNorm(Content(heap, x) \o Rendering(op'.args[1], op'.args[2]))
        /\ LenAfter = LenBefore + RLen(Rendering(op'.args[1], op'.args[2]))
        /\ Rd(heap', x' + LenAfter) = 0 ]_vars


\* an allocator call of the operation failed
AllocFailed(calls) ==
  \E j \in 1..Len(calls) :
    calls[j].fn \in {"malloc", "realloc"} /\ calls[j].ret = NULL

\* C20: with an out-of-memory hook that returns, an operation whose allocation
\* fails hands its caller a null result and makes no access through the null
\* block.
C20_OomReportsNull ==
  [][ (nops' = nops + 1 /\ AllocFailed(op'.calls)) =>
        (status' = "ok" /\ x' = NULL) ]_vars


\* the narrowest of the variants 8, 16, 32 whose capacity field holds alloc
SmallestFieldType(alloc) ==
  IF alloc < 256 THEN NI_STRING_TYPE_8
  ELSE IF alloc < 65536 THEN NI_STRING_TYPE_16
  ELSE NI_STRING_TYPE_32
\* the start of the block of the buffer before the step
BlockBefore == x - ni_string_hdr_size(Type(heap, x))

\* C22: when ni_string_make_room_for resizes, the new variant is the narrowest
\* of 8/16/32 that holds the new alloc and never Embedded-5; the block is
\* handed to realloc exactly when the variant stays the same, and otherwise a
\* new block is allocated, the len + 1 bytes are copied, the old block is
\* freed and the new flags and the length are written.
C22_GrowVariant ==
  [][ (Returned("make_room_for") /\ ni_string_avail(heap, x) < op'.args[1]) =>
        /\ Type(heap', x') = SmallestFieldType(AllocAfter)
        /\ Type(heap', x') # NI_STRING_TYPE_5
        /\ IF Type(heap', x') = Type(heap, x)
           THEN /\ Len(op'.calls) = 1
                /\ op'.calls[1].fn = "realloc"
                /\ op'.calls[1].ptr = BlockBefore
                /\ op'.calls[1].ret = x' - ni_string_hdr_size(Type(heap', x'))
           ELSE /\ Len(op'.calls) = 2
                /\ op'.calls[1].fn = "malloc"
                /\ op'.calls[1].ret = x' - ni_string_hdr_size(Type(heap', x'))
                /\ op'.calls[2].fn = "free"
                /\ op'.calls[2].ptr = BlockBefore
                /\ BlockBefore \notin DOMAIN heap'
                /\ LenAfter = LenBefore
                /\ RdBytes(heap', x', LenBefore + 1) =
                     RdBytes(heap, x, LenBefore + 1) ]_vars

\* the Embedded-5 buffer "fooba" has grown by 1: the computed variant for the
\* new alloc 12 is Embedded-5, and the buffer sits in a new block of variant 8
C22_Witness ==
  /\ nops = 2 /\ status = "ok" /\ op.name = "make_room_for" /\ op.args[1] = 1
  /\ Len(op.calls) = 2
  /\ Type(heap, x) = NI_STRING_TYPE_8
  /\ ni_string_len(heap, x) = 5 /\ ni_string_alloc(heap, x) = 12

\* C23: when ni_string_make_room_for(s, addlen) has to grow, the new alloc is
\* 2 * (len + addlen) when len + addlen is below NI_STRING_MAX_PREALLOC and
\* len + addlen + NI_STRING_MAX_PREALLOC otherwise.
C23_GrowthPolicy ==
  [][ (Returned("make_room_for") /\ ni_string_avail(heap, x) < op'.args[1]) =>
        AllocAfter =
          (IF LenBefore + op'.args[1] < 1048576
           THEN 2 * (LenBefore + op'.args[1])
           ELSE LenBefore + op'.args[1] + 1048576) ]_vars

\* the empty buffer has grown by exactly the threshold: 1 MiB is added
C23_Witness ==
  /\ nops = 2 /\ status = "ok" /\ op.name = "make_room_for"
  /\ op.args[1] = 1048576 /\ op.calls # <<>>
  /\ ni_string_len(heap, x) = 0 /\ ni_string_alloc(heap, x) = 2097152


\* C24: ni_string_remove_free_space returns a buffer with spare capacity 0
\* whose length and bytes [0, len] are unchanged, and returns the same handle
\* over an unchanged heap, with no allocator call, when the spare capacity was
\* already 0.
C24_RemoveFreeSpace ==
  [][ Returned("remove_free_space") =>
        /\ ni_string_avail(heap', x') = 0
        /\ LenAfter = LenBefore
        /\ RdBytes(heap', x', LenBefore + 1) = RdBytes(heap, x, LenBefore + 1)
        /\ (ni_string_avail(heap, x) = 0 =>
              x' = x /\ heap' = heap /\ op'.calls = <<>>) ]_vars

\* the third call is a second ni_string_remove_free_space in a row on the 300
\* byte buffer: no spare capacity is left to remove and no allocator call is
\* made
C24_Witness ==
  /\ nops = 3 /\ status = "ok" /\ op.name = "remove_free_space"
  /\ op.calls = <<>>
  /\ Type(heap, x) = NI_STRING_TYPE_16
  /\ ni_string_len(heap, x) = 300 /\ ni_string_alloc(heap, x) = 300


\* C25: ni_string_split_len returns NULL when an allocation fails, when the
\* input string has length zero and when the separator has length zero.
C25_SplitNullCases ==
  (op.name = "split_len" /\ Len(op.args) = 3
   /\ (op.args[1] = <<>> \/ op.args[2] = <<>> \/ AllocFailed(op.calls))) =>
    (status = "ok" /\ tokens = NULL)


\* no argument of the list is the long long whose negation overflows
NoMinArg(args) ==
  \A j \in 1..Len(args) :
    args[j].k = "n" =>
      ~(args[j].neg /\ args[j].mag = <<9, 223372036, 854775808>>)

\* C27: ni_string_cat_fmt returns without reading the format string past its
\* terminating zero byte, for every format string, a format whose last byte is
\* a lone '%' included (the arguments being well formed, a read outside the
\* format is the only undefined behaviour left to the call).
C27_FormatReadInBounds ==
  [][ (op'.name = "cat_fmt" /\ nops' = nops + 1 /\ Len(op'.args) = 2
       /\ NoMinArg(op'.args[2])) =>
        status' # "ub" ]_vars


\* C28: when the allocation inside ni_string_make_room_for or
\* ni_string_cat_len fails and NULL is returned, the buffer handed in is
\* untouched: its block is still live and its variant, length, alloc and bytes
\* are those before the call.
C28_FailureLeavesBuffer ==
  [][ (nops' = nops + 1 /\ op'.name \in {"make_room_for", "cat_len"}
       /\ AllocFailed(op'.calls) /\ status' = "ok" /\ x' = NULL) =>
        /\ BlockBefore \in DOMAIN heap'
        /\ heap'[BlockBefore] = heap[BlockBefore]
        /\ Type(heap', x) = Type(heap, x)
        /\ ni_string_len(heap', x) = LenBefore
        /\ ni_string_alloc(heap', x) = AllocBefore
        /\ RdBytes(heap', x, LenBefore + 1) = RdBytes(heap, x, LenBefore + 1)
        /\ heap' = heap ]_vars

\* ni_string_cat_len on the 300 byte buffer has returned NULL after a failed
\* realloc, and the block of the buffer is still there
C28_Witness ==
  /\ nops = 2 /\ status = "ok" /\ x = NULL
  /\ op.name = "cat_len" /\ Len(op.calls) = 1
  /\ op.calls[1].fn = "realloc" /\ op.calls[1].ret = NULL
  /\ op.calls[1].ptr \in DOMAIN heap
  /\ ni_string_len(heap, op.calls[1].ptr + 5) = 300


\* C21: for every interleaving of succeeding ni_malloc, ni_realloc and ni_free
\* calls of several threads on distinct blocks, once every call has returned
\* ni_malloc_used_memory() is the sum of the accounted sizes of the live blocks.
C21_NoLostUpdate ==
  AllReturned => ni_malloc_used_memory = SizeT(LiveSize)
\* calls of two threads overlapped, all returned, and each thread holds a block
C21_Witness ==
  /\ AllReturned /\ overlapped /\ ncalls = MaxCalls
  /\ \A t \in Threads : Owned(t) # {}
  /\ ni_malloc_used_memory = SizeT(LiveSize)

\* C29: after any sequence of ni_malloc, ni_realloc and ni_free calls of one
\* thread, with allocations failing while a failure hook that returns is set,
\* ni_malloc_used_memory() is the sum of the accounted sizes of the live blocks.
C29_CounterMatchesLive ==
  threads[1].pc = "idle" => ni_malloc_used_memory = SizeT(LiveSize)


\* len is the number of nodes from head by next and from tail by prev, the
\* ends point to NULL, next and prev agree, head = tail = NULL iff len = 0
WellFormed(ls, ns, l) ==
  LET f == Forward(ls, ns, l)
      b == Backward(ls, ns, l)
      lst == ls[l]
  IN /\ Len(f) = lst.len /\ Len(b) = lst.len
     /\ (lst.len = 0) = (lst.head = NULL)
     /\ (lst.len = 0) = (lst.tail = NULL)
     /\ lst.len > 0 => ns[lst.head].prev = NULL /\ ns[lst.tail].next = NULL
     /\ \A i \in 1..Len(f) :
          /\ ns[f[i]].live
          /\ f[i] # lst.tail =>
               ns[f[i]].next # NULL /\ ns[ns[f[i]].next].prev = f[i]

\* C30: after any sequence of ni_list_add_node_head, ni_list_add_node_tail,
\* ni_list_insert_node, ni_list_del_node, ni_list_rotate and ni_list_join of
\* two distinct lists, every list is well formed.
C30_WellFormed ==
  \A l \in ListIds : lists[l].live => WellFormed(lists, nodes, l)
\* a join has made a list of three or more nodes and emptied the other
C30_Witness ==
  /\ lop.name = "join"
  /\ lists[lop.args[1]].len >= 3 /\ lists[lop.args[2]].len = 0
  /\ WellFormed(lists, nodes, lop.args[1])


\* the values of the nodes of a list from its head, and their contents
ValuesOf(ls, ns, l) ==
  LET f == Forward(ls, ns, l) IN <<>> \o [i \in 1..Len(f) |-> ns[f[i]].value]
DataOf(ls, ns, vs, l) ==
  LET v == ValuesOf(ls, ns, l) IN <<>> \o [i \in 1..Len(v) |-> vs[v[i]].data]
AllLive(vs, q) == \A i \in 1..Len(q) : vs[q[i]].st = "live"
\* ni_list_dup(org) is called on a list whose values are live
DupCalled ==
  /\ lop'.name = "dup" /\ nlops' = nlops + 1
  /\ AllLive(values, ValuesOf(lists, nodes, lop'.args[1]))

\* C26: ni_list_dup never modifies the original list, whether it succeeds or
\* fails part-way and whether or not dup and free methods are set: the
\* original keeps its nodes in their order, every one of its values is still
\* live, and on success the copy holds the same sequence of values.
C26_DupLeavesOriginal ==
  [][ DupCalled =>
        LET org == lop'.args[1]
        IN /\ lists'[org] = lists[org]
           /\ \A n \in NodesOf(org) : nodes'[n] = nodes[n]
           /\ AllLive(values', ValuesOf(lists, nodes, org))
           /\ lop'.ret # NULL =>
                DataOf(lists', nodes', values', lop'.ret)
                  = DataOf(lists, nodes, values, org) ]_vars

====
